---- MODULE Spec2Model ----
(***************************************************************************)
(* A model of the NeaSPEC file readers of                                  *)
(* orangecontrib/spectroscopy/io/neaspec.py.                               *)
(*                                                                         *)
(* Text is modelled as sequences of one-character strings.  A floating     *)
(* point "missing" value (NaN) in an accumulator slot is modelled by the   *)
(* slot value NaN; a filled slot holds the 1-based number of the file      *)
(* record whose sample vector was stored there (data[i]).                  *)
(***************************************************************************)
EXTENDS Integers, Sequences, FiniteSets, TLC

\* ------------------------------------------------------------------ bounds

\* Longest legacy file (number of data lines after the header line).
MaxRecords == 3

\* Number of sample columns of a legacy file (columns 4..end), len(datacols).
NSamples == 2

\* ----------------------------------------------------------- input domains

\* (row, column) pixels a legacy record may name.
Pixels == {<<0, 0>>, <<0, 1>>}

\* Run values a legacy record may carry.
RunVals == {0, 1}

\* First sample of a reference sweep; a sweep is Start, Start+1, ...
SweepStarts == {0, 1, 2}

\* Channel labels of a legacy file, as character sequences.
Labels ==
  { <<"M">>, <<"Z">>, <<"O", "0", "A">>, <<"O", "1", "P">>, <<"O", "x", "A">> }

\* ------------------------------------------------------------- program state

VARIABLES
  pc,           \* position of the running call
  err,          \* the exception that ended the call ("" while none)
  file,         \* legacy file: the data lines after the header line
  runs,         \* np.unique(meta["run"]), ascending
  numharmonics,
  uniquerc,     \* set of (row, column) tuples of the file
  di,           \* pixel -> [M, OA, OP] accumulators
  i,            \* number of records consumed by the accumulation loop
  min_intp,     \* None, or <<v>>
  max_intp,     \* None, or <<v>>
  X,            \* common axis, in units of 1 / XScale
  pending,      \* pixels the output loop has not visited yet
  final_data,   \* output rows
  final_metas,  \* output metadata rows
  result,       \* what the call returned (None until it returns)
  text,         \* NeaReader.read_spectra: the characters of the file
  version,      \* NeaReader.read_spectra: the detected format version
  called,       \* NeaReader.read_spectra: the parsers it has called, in order
  line,         \* read_v2: the column header line, split at tabs
  matrix,       \* read_v2: the numeric block (the source's "file")
  index,        \* read_v2: position of "Wavenumber" in line (None: unbound)
  Channel,      \* read_v2: the channel names
  Max_row,
  Max_col,
  Max_omega,
  M,            \* read_v2: the output matrix, row number -> samples
  j,            \* read_v2: number of pixel blocks copied
  Meta_data,    \* read_v2: row number -> <<row, column, channel>>
  header,       \* multichannel: the "#" lines, as key and value cells
  table_data_headers,  \* multichannel: the column names
  input_data,   \* multichannel: the lines of the table (table_data_values)
  info,         \* multichannel: the header dictionary
  valid_channel_cols,  \* multichannel: positions of the channel columns
  shape,        \* multichannel: cols, rows, depth, runs read from info
  out_data,     \* multichannel: row number -> samples
  out_meta,     \* multichannel: row number -> <<column, row, run, channel>>
  loop_step,    \* multichannel: number of (row, column, run) steps done
  filename,     \* NeaReaderGSF: self.filename, a sequence of characters
  disk,         \* NeaReaderGSF: rows and row length of the rasters on disk
  html,         \* NeaReaderGSF: the tags and texts of the metadata report
  channel_a,    \* NeaReaderGSF: self.channel_a
  channel_p,    \* NeaReaderGSF: self.channel_p
  file_gsf_a,
  file_gsf_p,
  file_html,
  data_gsf_a,   \* NeaReaderGSF: raster of the amplitude file, a list of rows
  data_gsf_p,   \* NeaReaderGSF: raster of the phase file
  parser,       \* NeaReaderGSF._html_reader: p, the HTMLTableParser
  fed,          \* NeaReaderGSF._html_reader: events of the report fed to p
  parameters,   \* NeaReaderGSF: the rows of the first table of the report
  format_info,  \* NeaReaderGSF._format_file: info
  px,           \* NeaReaderGSF._format_file: averaging, px_x, px_y, px_z
  data_complete,
  format_metas, \* NeaReaderGSF._format_file: final_metas
  y,            \* NeaReaderGSF._format_file: number of image rows emitted
  calls,        \* reads made with the reader object, the running one included
  previous,     \* how the read before the running one ended (None: none)
  widget,       \* the widget on the canvas (None while a file is read)
  self_data,    \* OWManualTilt / OWManualBaselineEditor: self.data
  slope,        \* OWManualTilt / OWManualBaselineEditor: self.slope
  slope_slider, \* what _update_slider last gave to self.slope_slider
  presses,      \* clicks made on the slope step buttons
  data1,        \* OWCos: self.data1
  data2,        \* OWCos: self.data2
  cosmat,       \* OWCos: self.cosmat (None: the attribute does not exist)
  signals,      \* OWCos: inputs delivered since the last handleNewSignals
  data2_sent    \* OWCos: whether a table ever arrived at the Data 2 input

v1vars ==
  << file, runs, numharmonics, uniquerc, di, i, min_intp, max_intp, X,
     pending, final_data, final_metas >>

detvars == << text, version, called >>

v2vars ==
  << line, matrix, index, Channel, Max_row, Max_col, Max_omega, M, j,
     Meta_data >>

mcvars ==
  << header, table_data_headers, input_data, info, valid_channel_cols, shape,
     out_data, out_meta, loop_step >>

gsfvars ==
  << filename, disk, html, channel_a, channel_p, file_gsf_a, file_gsf_p,
     file_html, data_gsf_a, data_gsf_p, parser, fed, parameters, format_info,
     px, data_complete, format_metas, y >>

\* what outlives a call: the count of the reads and the outcome of the last
objvars == << calls, previous >>

\* the widgets of widgets/owmanualtilt.py, owmanualbaseline.py and owcos.py
widgetvars ==
  << widget, self_data, slope, slope_slider, presses, data1, data2, cosmat,
     signals, data2_sent >>

vars ==
  << pc, err, result, v1vars, detvars, v2vars, mcvars, gsfvars, objvars,
     widgetvars >>

\* what the steps of read_v1 leave alone
NotV1 == << detvars, v2vars, mcvars, gsfvars, objvars,
  widgetvars >>

\* what the steps of NeaReader.read_spectra leave alone
NotDetect == << v1vars, v2vars, mcvars, gsfvars, objvars,
  widgetvars >>

\* what the steps of read_v2 leave alone
NotV2 == << v1vars, detvars, mcvars, gsfvars, objvars,
  widgetvars >>

\* what the steps of NeaReaderMultiChannelTXT.read_spectra leave alone
NotMC == << v1vars, detvars, v2vars, gsfvars, objvars,
  widgetvars >>

\* what the steps of NeaReaderGSF leave alone
NotGSF == << v1vars, detvars, v2vars, mcvars, objvars,
  widgetvars >>

None == << >>

NaN == 0

\* ------------------------------------------------------------ text helpers

Digits == << "0", "1", "2", "3", "4", "5", "6", "7", "8", "9" >>

IsDigit(c) == \E d \in 1..10 : Digits[d] = c

DigitVal(c) == (CHOOSE d \in 1..10 : Digits[d] = c) - 1

\* bytes.startswith / bytes.endswith with a one-character argument
startswith(a, c) == Len(a) >= 1 /\ a[1] = c

endswith(a, c) == Len(a) >= 1 /\ a[Len(a)] = c

\* a[1:-1]
Middle(a) == SubSeq(a, 2, Len(a) - 1)

\* int(s) succeeds on a non-empty run of decimal digits
IntOk(s) == Len(s) >= 1 /\ \A k \in 1..Len(s) : IsDigit(s[k])

RECURSIVE IntOf(_)
IntOf(s) ==
  IF Len(s) = 0 THEN 0
  ELSE 10 * IntOf(SubSeq(s, 1, Len(s) - 1)) + DigitVal(s[Len(s)])

\* "%d" % n for n >= 0
RECURSIVE FormatInt(_)
FormatInt(n) ==
  IF n < 10 THEN << Digits[n + 1] >>
  ELSE FormatInt(n \div 10) \o << Digits[(n % 10) + 1] >>

\* ------------------------------------------------------------ read_v1: load

\* channel_type with the reference channel recognised by its name only
channel_type_named(a) ==
  IF a = << "M" >> THEN "M"
  ELSE IF endswith(a, "A") THEN "OA"
  ELSE "OP"

channel_type(a) ==
  IF startswith(a, "O") /\ endswith(a, "A") THEN "OA"
  ELSE IF startswith(a, "O") /\ endswith(a, "P") THEN "OP"
  ELSE "M"

\* np.unique(meta["channel"])
Channels(f) == { f[k].channel : k \in 1..Len(f) }

\* np.unique(meta["run"]) as a set; its length is all the code uses
RunSet(f) == { f[k].run : k \in 1..Len(f) }

HarmonicLabels(f) == { a \in Channels(f) : channel_type(a) \in {"OA", "OP"} }

SetMax(S) == CHOOSE m \in S : \A s \in S : s <= m

SetMin(S) == CHOOSE m \in S : \A s \in S : m <= s

\* maxn taken as the number of harmonic labels instead of the largest index
MaxNCount(f) == Cardinality({ IntOf(Middle(a)) : a \in HarmonicLabels(f) }) - 1

\* maxn after the loop over channels, when every int() succeeded
MaxN(f) ==
  IF HarmonicLabels(f) = {} THEN -1
  ELSE SetMax({ IntOf(Middle(a)) : a \in HarmonicLabels(f) })

UniqueRC(f) == { << f[k].row, f[k].column >> : k \in 1..Len(f) }

\* A reference sweep of NSamples strictly increasing samples.
Sweep(start) == [ k \in 1..NSamples |-> start + (k - 1) ]

SampleVectors == { Sweep(s) : s \in SweepStarts }

\* Where a record sits: its pixel and its run.
Keys == { [ row |-> p[1], column |-> p[2], run |-> r ] : p \in Pixels, r \in RunVals }

\* The scan writes pixel after pixel and, within a pixel, run after run.
KeyLE(a, b) ==
  \/ a.row < b.row
  \/ a.row = b.row /\ a.column < b.column
  \/ a.row = b.row /\ a.column = b.column /\ a.run <= b.run

KeySeqs(n) ==
  { ks \in [ 1..n -> Keys ] : \A k \in 1..(n - 1) : KeyLE(ks[k], ks[k + 1]) }

\* What a record carries: its label and its sample vector.  Amplitude and
\* phase samples do not steer the parser, so they are fixed to one sweep.
Payloads ==
  { pl \in [ channel : Labels, data : SampleVectors ] :
      channel_type(pl.channel) # "M" => pl.data = Sweep(SetMin(SweepStarts)) }

\* The data lines of a legacy file: row, column, run, channel, samples.
MakeFile(ks, pls) ==
  [ k \in DOMAIN ks |->
      [ row |-> ks[k].row, column |-> ks[k].column, run |-> ks[k].run,
        channel |-> pls[k].channel, data |-> pls[k].data ] ]

VecMin(v) == SetMin({ v[k] : k \in 1..Len(v) })

VecMax(v) == SetMax({ v[k] : k \in 1..Len(v) })

\* read_v1 up to the accumulation loop: column count, runs, channels,
\* numharmonics, uniquerc.  int() of a malformed harmonic label raises.
V1Load ==
  /\ pc = "v1_load"
  /\ runs' = RunSet(file)
  /\ i' = 0
  /\ IF \E a \in HarmonicLabels(file) : ~IntOk(Middle(a))
     THEN /\ pc' = "error"
          /\ err' = "ValueError"
          /\ UNCHANGED << numharmonics, uniquerc >>
     ELSE /\ numharmonics' = MaxN(file) + 1
          /\ uniquerc' = UniqueRC(file)
          /\ pc' = "v1_accumulate"
          /\ err' = ""
  /\ UNCHANGED << file, di, min_intp, max_intp, X, pending, final_data,
                  final_metas, result, NotV1 >>

\* ------------------------------------------------------ read_v1: accumulate

\* np.zeros(...) * np.nan accumulators of one pixel
EmptySeries(nruns, nharm) ==
  [ M  |-> [ r \in 0..(nruns - 1) |-> NaN ],
    OA |-> [ h \in 0..(nharm - 1) |-> [ r \in 0..(nruns - 1) |-> NaN ] ],
    OP |-> [ h \in 0..(nharm - 1) |-> [ r \in 0..(nruns - 1) |-> NaN ] ] ]

\* di after "if (row, col) not in di: di[(row, col)] = {...}"
WithPixel(d, key, nruns, nharm) ==
  IF key \in DOMAIN d THEN d
  ELSE [ p \in (DOMAIN d) \cup {key} |->
           IF p = key THEN EmptySeries(nruns, nharm) ELSE d[p] ]

\* the envelope widened to the union of the reference ranges
NarrowMinUnion(cur, v) ==
  IF cur = None THEN << VecMin(v) >>
  ELSE << IF cur[1] <= VecMin(v) THEN cur[1] ELSE VecMin(v) >>

\* running intersection of the reference ranges
NarrowMin(cur, v) ==
  IF cur = None THEN << VecMin(v) >>
  ELSE << IF cur[1] >= VecMin(v) THEN cur[1] ELSE VecMin(v) >>

NarrowMax(cur, v) ==
  IF cur = None THEN << VecMax(v) >>
  ELSE << IF cur[1] <= VecMax(v) THEN cur[1] ELSE VecMax(v) >>

\* an axis that takes every run value
RunAlwaysInRange(run) == TRUE

\* a run value indexes an axis of length len(runs)
RunInRange(run) == run < Cardinality(runs)

\* one iteration of "for i, (row, col, run, chan) in enumerate(meta)"
V1Accumulate ==
  /\ pc = "v1_accumulate"
  /\ i < Len(file)
  /\ IF Len(file) = 1
     THEN \* loadtxt squeezes a one-line file to a 0-d record: not iterable
          /\ pc' = "error"
          /\ err' = "TypeError"
          /\ UNCHANGED << di, i, min_intp, max_intp >>
     ELSE LET rec  == file[i + 1]
              key  == << rec.row, rec.column >>
              d1   == WithPixel(di, key, Cardinality(runs), numharmonics)
              kind == channel_type(rec.channel)
          IN  IF ~RunInRange(rec.run)
              THEN /\ pc' = "error"
                   /\ err' = "IndexError"
                   /\ di' = d1
                   /\ UNCHANGED << i, min_intp, max_intp >>
              ELSE /\ pc' = pc
                   /\ err' = err
                   /\ i' = i + 1
                   /\ IF kind = "M"
                      THEN /\ di' = [ d1 EXCEPT ![key].M[rec.run] = i + 1 ]
                           /\ min_intp' = NarrowMin(min_intp, rec.data)
                           /\ max_intp' = NarrowMax(max_intp, rec.data)
                      ELSE /\ di' = [ d1 EXCEPT
                                 ![key][kind][IntOf(Middle(rec.channel))][rec.run]
                                    = i + 1 ]
                           /\ UNCHANGED << min_intp, max_intp >>
  /\ UNCHANGED << file, runs, numharmonics, uniquerc, X, pending, final_data,
                  final_metas, result, NotV1 >>

\* ------------------------------------------------------------ read_v1: axis

\* The axis is kept in units of 1 / XScale so that it stays integral.
XScale == NSamples - 1

\* np.linspace(lo, hi, num=n), scaled by n - 1
Linspace(lo, hi, n) == [ k \in 1..n |-> lo * (n - 1) + (k - 1) * (hi - lo) ]

V1Axis ==
  /\ pc = "v1_accumulate"
  /\ i = Len(file)
  /\ IF min_intp = None
     THEN \* np.linspace(None, None): no reference record was seen
          /\ pc' = "error"
          /\ err' = "TypeError"
          /\ UNCHANGED << X, pending >>
     ELSE /\ X' = Linspace(min_intp[1], max_intp[1], NSamples)
          /\ pending' = uniquerc
          /\ pc' = "v1_interp"
          /\ err' = err
  /\ UNCHANGED << file, runs, numharmonics, uniquerc, di, i, min_intp,
                  max_intp, final_data, final_metas, result, NotV1 >>

\* ------------------------------------------------- read_v1: interpolate, mean

\* a bounds check that only looks below the range
OutOfDomainBelow(slot) ==
  /\ slot # NaN
  /\ \E k \in 1..Len(X) : X[k] < VecMin(file[slot].data) * XScale

\* interp1d(x, y)(X) raises when a point of X is below x.min() or above
\* x.max(); every comparison with a missing (NaN) x is false, so a missing
\* reference vector raises nothing.
OutOfDomain(slot) ==
  /\ slot # NaN
  /\ \E k \in 1..Len(X) :
       \/ X[k] < VecMin(file[slot].data) * XScale
       \/ X[k] > VecMax(file[slot].data) * XScale

InterpFails(series) ==
  \E r \in DOMAIN series.M : OutOfDomain(series.M[r])

\* a mean that skips the runs with a missing vector (np.nanmean)
MeanRowSkipMissing(series, kind, h) ==
  LET present == { r \in DOMAIN series.M :
                     series.M[r] # NaN /\ series[kind][h][r] # NaN }
  IN  [ missing |-> present = {},
        of |-> [ r \in present |-> << series.M[r], series[kind][h][r] >> ] ]

\* np.mean over the runs of the interpolated harmonic h: missing as soon as
\* one run misses its reference or its channel vector (a missing value in
\* either makes every interpolated sample of the run missing, and the mean
\* with it); otherwise the mean, over the runs, of the channel vector of
\* each run resampled from that run's reference vector onto X, kept as the
\* run -> <<reference record, channel record>> pairs it is computed from.
MeanRow(series, kind, h) ==
  LET missing == \E r \in DOMAIN series.M :
                    series.M[r] = NaN \/ series[kind][h][r] = NaN
  IN  [ missing |-> missing,
        of |-> IF missing THEN << >>
               ELSE [ r \in DOMAIN series.M |->
                        << series.M[r], series[kind][h][r] >> ] ]

\* the rows of the mean taken in descending harmonic order
MeanRowsDescending(pixel, series, kind, nharm) ==
  [ n \in 1..nharm |->
      [ pixel |-> pixel, kind |-> kind, harmonic |-> nharm - n,
        value |-> MeanRow(series, kind, nharm - n) ] ]

\* rows that carry the mean of the other channel type
MeanRowsOfOtherKind(pixel, series, kind, nharm) ==
  [ n \in 1..nharm |->
      [ pixel |-> pixel, kind |-> kind, harmonic |-> n - 1,
        value |-> MeanRow(series, IF kind = "OA" THEN "OP" ELSE "OA", n - 1) ] ]

\* the rows of OAmean (or OPmean): one per harmonic, ascending
MeanRows(pixel, series, kind, nharm) ==
  [ n \in 1..nharm |->
      [ pixel |-> pixel, kind |-> kind, harmonic |-> n - 1,
        value |-> MeanRow(series, kind, n - 1) ] ]

\* metadata rows numbered from 1 (range(1, numharmonics + 1))
MetaRowsOneBased(pixel, suffix, nharm) ==
  [ n \in 1..nharm |->
      << pixel[1], pixel[2], <<"O">> \o FormatInt(n) \o << suffix >> >> ]

\* [[row, col, "O%dA" % i] for i in range(numharmonics)]
MetaRows(pixel, suffix, nharm) ==
  [ n \in 1..nharm |->
      << pixel[1], pixel[2], <<"O">> \o FormatInt(n - 1) \o << suffix >> >> ]

\* the order in which the set uniquerc is iterated is any order for a first
\* read, and for a later read of the same file the order of the read before
\* (the order of a set of integer tuples is a function of its content)
SameOrderAsBefore(p) ==
  IF calls = 1 THEN TRUE
  ELSE IF previous.pc # "done" THEN TRUE
  ELSE IF numharmonics = 0 THEN TRUE
  ELSE p = << previous.result.metas[Len(final_metas) + 1][1],
              previous.result.metas[Len(final_metas) + 1][2] >>

\* the read before, if there was one, ended at the position given
EndedBefore(at) == IF calls = 1 THEN TRUE ELSE previous.pc = at

\* one iteration of "for row, col in uniquerc" (a set: any order)
V1Interp ==
  /\ pc = "v1_interp"
  /\ \E p \in pending :
       /\ SameOrderAsBefore(p)
       /\ IF InterpFails(di[p])
          THEN /\ pc' = "error"
               /\ err' = "InterpolationError"
               /\ UNCHANGED << pending, final_data, final_metas >>
          ELSE /\ pending' = pending \ {p}
               /\ final_data' = final_data
                    \o MeanRows(p, di[p], "OA", numharmonics)
                    \o MeanRows(p, di[p], "OP", numharmonics)
               /\ final_metas' = final_metas
                    \o MetaRows(p, "A", numharmonics)
                    \o MetaRows(p, "P", numharmonics)
               /\ pc' = pc
               /\ err' = err
  /\ UNCHANGED << file, runs, numharmonics, uniquerc, di, i, min_intp,
                  max_intp, X, result, NotV1 >>

\* np.vstack, Table.from_numpy and the return.  With no output row the
\* metadata array is one-dimensional and what the table constructor does
\* with it is not decided here: it may raise or build an empty table, and
\* does in a later read of the same file what it did in the read before.
V1Return ==
  /\ pc = "v1_interp"
  /\ pending = {}
  /\ \/ /\ EndedBefore("done")
        /\ pc' = "done"
        /\ err' = err
        /\ result' = [ X |-> X, data |-> final_data, metas |-> final_metas ]
     \/ /\ final_metas = << >>
        /\ EndedBefore("error")
        /\ pc' = "error"
        /\ err' = "TableError"
        /\ result' = result
  /\ UNCHANGED << v1vars, NotV1 >>

\* ------------------------------------------------------------ specification

\* the first read made with a reader object
FirstCall ==
  /\ calls = 1
  /\ previous = None

\* a file is being read: there is no widget
NoWidget ==
  /\ widget = None
  /\ self_data = None
  /\ slope = None
  /\ slope_slider = None
  /\ presses = 0
  /\ data1 = None
  /\ data2 = None
  /\ cosmat = None
  /\ signals = {}
  /\ data2_sent = FALSE

\* the locals of read_v1 before the call
IdleV1 ==
  /\ runs = {}
  /\ numharmonics = 0
  /\ uniquerc = {}
  /\ di = << >>
  /\ i = 0
  /\ min_intp = None
  /\ max_intp = None
  /\ X = << >>
  /\ pending = {}
  /\ final_data = << >>
  /\ final_metas = << >>

\* the locals of NeaReader.read_spectra before the call
IdleDetect ==
  /\ version = 1
  /\ called = << >>

\* the locals of read_v2 before the call
IdleV2 ==
  /\ index = None
  /\ Channel = << >>
  /\ Max_row = 0
  /\ Max_col = 0
  /\ Max_omega = 0
  /\ M = << >>
  /\ j = 0
  /\ Meta_data = << >>

\* the locals of NeaReaderMultiChannelTXT.read_spectra before the call
IdleMC ==
  /\ info = << >>
  /\ valid_channel_cols = << >>
  /\ shape = << >>
  /\ out_data = << >>
  /\ out_meta = << >>
  /\ loop_step = 0

\* no commented-table file is being read by read_v2
NoV2Input ==
  /\ line = << >>
  /\ matrix = << >>
  /\ IdleV2

\* no multichannel file is being read
NoMCInput ==
  /\ header = << >>
  /\ table_data_headers = << >>
  /\ input_data = << >>
  /\ IdleMC

\* the attributes and locals of NeaReaderGSF before the call
IdleGSF ==
  /\ channel_a = None
  /\ channel_p = None
  /\ file_gsf_a = None
  /\ file_gsf_p = None
  /\ file_html = None
  /\ data_gsf_a = << >>
  /\ data_gsf_p = << >>
  /\ parser = << >>
  /\ fed = 0
  /\ parameters = << >>
  /\ format_info = << >>
  /\ px = << >>
  /\ data_complete = << >>
  /\ format_metas = << >>
  /\ y = 0

\* no raster file is being read by NeaReaderGSF
NoGSFInput ==
  /\ filename = << >>
  /\ disk = << >>
  /\ html = << >>
  /\ IdleGSF

\* no modern file is being read
NoModernInput == NoV2Input /\ NoMCInput /\ NoGSFInput

InitV1 ==
  /\ pc = "v1_load"
  /\ err = ""
  /\ result = None
  /\ FirstCall
  /\ NoWidget
  /\ text = << >>
  /\ IdleDetect
  /\ IdleV1
  /\ NoModernInput
  /\ \E n \in 1..MaxRecords :
       \E ks \in KeySeqs(n), pls \in [ 1..n -> Payloads ] : file = MakeFile(ks, pls)

NextV1 == V1Load \/ V1Accumulate \/ V1Axis \/ V1Interp \/ V1Return

SpecV1 == InitV1 /\ [][NextV1]_vars

\* read_v1 once more, under a name of its own: the claims about what the
\* accumulator slots hold and how they are averaged are settled on it
SpecV1Slots == InitV1 /\ [][NextV1]_vars

\* ------------------------------------------------------- read_v1: properties

\* the accumulation loop has consumed every record
AllConsumed == pc # "v1_load" /\ i = Len(file)

\* records whose label the parser takes for the reference channel
RefRecords == { k \in 1..Len(file) : channel_type(file[k].channel) = "M" }

\* C2: once every record is consumed, the lower bound of the common axis is
\* the largest of the minima and the upper bound the smallest of the maxima
\* of all reference sample vectors of the file: the intersection of ranges.
C2_EnvelopeIsIntersection ==
  (AllConsumed /\ RefRecords # {}) =>
     /\ min_intp = << SetMax({ VecMin(file[k].data) : k \in RefRecords }) >>
     /\ max_intp = << SetMin({ VecMax(file[k].data) : k \in RefRecords }) >>

\* C2 witness: two reference vectors with different ranges were consumed, so
\* that the intersection differs from the union at both ends.
C2_Witness ==
  /\ AllConsumed
  /\ \E m, k \in RefRecords :
       /\ VecMin(file[m].data) < VecMin(file[k].data)
       /\ VecMax(file[m].data) < VecMax(file[k].data)
       /\ min_intp = << VecMin(file[k].data) >>
       /\ max_intp = << VecMax(file[m].data) >>

\* C3 as claimed: the axis of every accepted file (with at least one output
\* row) is strictly increasing and has one point per sample column.
C3_AxisStrictlyIncreasing ==
  (pc = "done" /\ result.data # << >>) =>
     /\ Len(result.X) = NSamples
     /\ \A k \in 1..(Len(result.X) - 1) : result.X[k] < result.X[k + 1]

\* label text of harmonic h with suffix c, written out independently of the
\* parser: "O", the decimal digits of h, c
HarmonicLabel(h, c) == << "O" >> \o FormatInt(h) \o << c >>

\* output row numbers whose metadata name pixel p
RowsOfPixel(p) ==
  { n \in 1..Len(result.metas) :
      result.metas[n][1] = p[1] /\ result.metas[n][2] = p[2] }

\* C4: in the returned table every pixel of the file has exactly one
\* amplitude row and one phase row per harmonic 0..numharmonics-1 and no
\* other row, hence 2 * numharmonics rows, whatever the number of runs.
C4_HarmonicCompleteness ==
  pc = "done" =>
    /\ Len(result.data) = Len(result.metas)
    /\ \A p \in UniqueRC(file) :
         /\ Cardinality(RowsOfPixel(p)) = 2 * numharmonics
         /\ Cardinality({ n \in 1..Len(result.data) : result.data[n].pixel = p })
              = 2 * numharmonics
         /\ \A h \in 0..(numharmonics - 1) : \A c \in {"A", "P"} :
              Cardinality({ n \in RowsOfPixel(p) :
                              result.metas[n][3] = HarmonicLabel(h, c) }) = 1

\* C4 witness: a table was returned for two pixels, two runs, two harmonics.
C4_Witness ==
  /\ pc = "done"
  /\ Cardinality(UniqueRC(file)) = 2
  /\ Cardinality(runs) = 2
  /\ numharmonics = 2
  /\ Len(result.metas) = 8

\* position of output row n inside its pixel's group of 2 * numharmonics rows
GroupPos(n) == (n - 1) % (2 * numharmonics)

\* C5 as claimed: inside a pixel's group the rows go O0A, O0P, O1A, O1P, ...
\* in the channel metadata and in the data matrix.
C5_InterleavedOrder ==
  pc = "done" =>
    \A n \in 1..Len(result.metas) :
      LET h == GroupPos(n) \div 2
          c == IF GroupPos(n) % 2 = 0 THEN "A" ELSE "P"
      IN  /\ result.metas[n][3] = HarmonicLabel(h, c)
          /\ result.data[n].harmonic = h
          /\ result.data[n].kind = (IF c = "A" THEN "OA" ELSE "OP")

\* C5 amended: inside a pixel's group the rows are the amplitude rows of
\* harmonics 0, 1, ... followed by the phase rows of harmonics 0, 1, ...
\* (O0A, O1A, ..., O0P, O1P, ...), in the metadata and in the data matrix,
\* and every row of a group belongs to the group's pixel.
C5_GroupedOrder ==
  pc = "done" =>
    \A n \in 1..Len(result.metas) :
      LET q == GroupPos(n)
          h == IF q < numharmonics THEN q ELSE q - numharmonics
          c == IF q < numharmonics THEN "A" ELSE "P"
          first == n - q
      IN  /\ result.metas[n][3] = HarmonicLabel(h, c)
          /\ result.data[n].harmonic = h
          /\ result.data[n].kind = (IF c = "A" THEN "OA" ELSE "OP")
          /\ result.data[n].pixel = << result.metas[n][1], result.metas[n][2] >>
          /\ result.data[n].pixel = result.data[first].pixel

\* C5 witness: a returned table with two harmonics, where the two orders differ.
C5_Witness ==
  /\ pc = "done"
  /\ numharmonics = 2
  /\ Len(result.metas) >= 4
  /\ result.metas[2][3] = HarmonicLabel(1, "A")
  /\ result.metas[3][3] = HarmonicLabel(0, "P")

\* harmonic indices h for which the file holds a label "O<h>A" or "O<h>P"
LabelsOfHarmonic ==
  [ h \in 0..9 |-> { HarmonicLabel(h, "A"), HarmonicLabel(h, "P") } ]

HarmonicIndices ==
  { h \in 0..9 : \E k \in 1..Len(file) : file[k].channel \in LabelsOfHarmonic[h] }

\* C6: numharmonics is 1 + the largest harmonic index among the amplitude
\* and phase labels of the file, 0 when there is none, whichever pixels and
\* runs carry them and whether or not lower indices are present.
C6_NumHarmonics ==
  (pc # "v1_load" /\ err # "ValueError") =>
     numharmonics =
       (IF HarmonicIndices = {} THEN 0 ELSE 1 + SetMax(HarmonicIndices))

\* C6 witness: harmonic 1 is present and harmonic 0 is not (a gap).
C6_Witness ==
  /\ pc = "done"
  /\ HarmonicIndices = {1}
  /\ numharmonics = 2

\* a label of the form O<digits>A or O<digits>P
OForm(a) ==
  /\ Len(a) >= 3
  /\ a[1] = "O"
  /\ a[Len(a)] \in {"A", "P"}
  /\ \A k \in 2..(Len(a) - 1) : IsDigit(a[k])

\* a label that starts with "O" and ends with "A" or "P"
OShaped(a) == Len(a) >= 1 /\ a[1] = "O" /\ a[Len(a)] \in {"A", "P"}

\* the last consumed record before position n with the key of record k whose
\* label is not O-shaped
LastRefAt(k) ==
  SetMax({ m \in 1..i :
             /\ ~OShaped(file[m].channel)
             /\ file[m].row = file[k].row
             /\ file[m].column = file[k].column
             /\ file[m].run = file[k].run })

\* C7 as claimed: every label not of the form O<digits>A / O<digits>P is
\* taken for the reference channel and raises no error.
C7_NonOFormIsReference ==
  pc # "v1_load" =>
    \A k \in 1..Len(file) :
      ~OForm(file[k].channel) =>
         /\ channel_type(file[k].channel) = "M"
         /\ err # "ValueError"

\* C7 amended: every label that does not both start with "O" and end with
\* "A" or "P" is taken for the reference channel and raises no error in the
\* classification; once consumed its vector is the reference vector of its
\* pixel and run (until a later reference record of the same pixel and run
\* replaces it) and it narrows the envelope like an "M" record.
C7_NonOShapedIsReference ==
  /\ (\A k \in 1..Len(file) : ~OShaped(file[k].channel)) => err # "ValueError"
  /\ \A k \in 1..i :
       ~OShaped(file[k].channel) =>
          /\ << file[k].row, file[k].column >> \in DOMAIN di
          /\ di[<< file[k].row, file[k].column >>].M[file[k].run] = LastRefAt(k)
          /\ min_intp # None /\ min_intp[1] >= VecMin(file[k].data)
          /\ max_intp # None /\ max_intp[1] <= VecMax(file[k].data)
  /\ AllConsumed =>
       LET ref == { k \in 1..Len(file) : ~OShaped(file[k].channel) }
       IN  ref # {} =>
             /\ min_intp = << SetMax({ VecMin(file[k].data) : k \in ref }) >>
             /\ max_intp = << SetMin({ VecMax(file[k].data) : k \in ref }) >>

\* C7 witness: a record labelled "Z" is the stored reference vector of its
\* pixel and run and is the one that set the lower bound of the envelope.
C7_Witness ==
  /\ pc = "done"
  /\ \E k \in 1..Len(file) : \E m \in 1..Len(file) :
       /\ file[k].channel = << "Z" >>
       /\ di[<< file[k].row, file[k].column >>].M[file[k].run] = k
       /\ file[m].channel = << "M" >>
       /\ VecMin(file[m].data) < VecMin(file[k].data)
       /\ min_intp = << VecMin(file[k].data) >>

\* the common axis has a point outside the range of the reference vector
\* stored for pixel p and run r
AxisLeavesRange(p, r) ==
  /\ di[p].M[r] # NaN
  /\ LET ref == file[di[p].M[r]].data
     IN  \E k \in 1..Len(X) : \E n \in 1..Len(ref) :
           \/ /\ X[k] < ref[n] * XScale
              /\ \A m \in 1..Len(ref) : ref[n] <= ref[m]
           \/ /\ X[k] > ref[n] * XScale
              /\ \A m \in 1..Len(ref) : ref[n] >= ref[m]

PixelsLeavingRange ==
  { p \in DOMAIN di : \E r \in DOMAIN di[p].M : AxisLeavesRange(p, r) }

\* C8: when a point of the common axis lies outside the range of the
\* reference vector of some pixel and run, no table is returned and no row
\* is produced for that pixel: the call is still to visit the pixel, or it
\* has ended with the error of the interpolation step.
C8_NoExtrapolation ==
  (X # << >> /\ PixelsLeavingRange # {}) =>
     /\ result = None
     /\ \/ pc = "v1_interp" /\ PixelsLeavingRange \subseteq pending
        \/ pc = "error" /\ err = "InterpolationError"
     /\ \A n \in 1..Len(final_data) :
          final_data[n].pixel \notin PixelsLeavingRange

\* C8 witness: the call ended with the interpolation error after another
\* pixel had been interpolated.
C8_Witness ==
  /\ pc = "error"
  /\ err = "InterpolationError"
  /\ PixelsLeavingRange # {}
  /\ pending # uniquerc

\* the file has no record of pixel p, run r with the label of (kind c,
\* harmonic h)
NoRecordFor(p, c, h, r) ==
  \A k \in 1..Len(file) :
    ~ /\ file[k].row = p[1]
      /\ file[k].column = p[2]
      /\ file[k].run = r
      /\ file[k].channel \in { HarmonicLabel(h, c) }

KindOf(c) == IF c = "A" THEN "OA" ELSE "OP"

\* C9: a (pixel, harmonic, channel type, run) combination without a record
\* leaves its accumulator slot missing, and the averaged output row of that
\* pixel, harmonic and channel type is missing too; the file is still read.
C9_MissingPropagates ==
  \A p \in DOMAIN di : \A c \in {"A", "P"} :
    \A h \in 0..(numharmonics - 1) : \A r \in DOMAIN di[p].M :
      NoRecordFor(p, c, h, r) =>
        /\ di[p][KindOf(c)][h][r] = NaN
        /\ \A n \in 1..Len(final_data) :
             ( /\ final_data[n].pixel = p
               /\ final_data[n].kind = KindOf(c)
               /\ final_data[n].harmonic = h ) => final_data[n].value.missing

\* C9 witness: a table was returned for a pixel whose harmonic 0 amplitude
\* has a record, with its reference, for run 0 and none for run 1 (whose
\* reference exists): the output row is missing, not the run-0 value.
C9_Witness ==
  /\ pc = "done"
  /\ \E p \in DOMAIN di :
       /\ numharmonics >= 1
       /\ DOMAIN di[p].M = {0, 1}
       /\ di[p].M[0] # NaN
       /\ di[p].M[1] # NaN
       /\ di[p].OA[0][0] # NaN
       /\ NoRecordFor(p, "A", 0, 1)
       /\ \E n \in 1..Len(result.data) :
            /\ result.data[n].pixel = p
            /\ result.data[n].kind = "OA"
            /\ result.data[n].harmonic = 0
            /\ result.data[n].value.missing

\* ================================================== NeaReader.read_spectra

\* Longest file text the format detection is tried on, in characters.
MaxChars == 3

\* Characters a file may start with.
Alphabet == { "#", " ", "l", "\t" }

Texts == UNION { [ 1..n -> Alphabet ] : n \in 0..MaxChars }

\* f.read(n): the first n characters, fewer at the end of the file
read(t, n) == SubSeq(t, 1, IF Len(t) < n THEN Len(t) ELSE n)

\* a detection that looks at the comment marker only
IsModernByMarker(t) == read(t, 1) = << "#" >>

\* f.read(2) == "# "
IsModern(t) == read(t, 2) = << "#", " " >>

\* version = 1; with open(...) as f: if f.read(2) == "# ": version = 2
RSDetect ==
  /\ pc = "rs_detect"
  /\ version' = (IF IsModern(text) THEN 2 ELSE 1)
  /\ pc' = "rs_dispatch"
  /\ UNCHANGED << err, result, text, called, NotDetect >>

\* if version == 1: return self.read_v1() else: return self.read_v2()
RSDispatch ==
  /\ pc = "rs_dispatch"
  /\ called' = Append(called, IF version = 1 THEN "read_v1" ELSE "read_v2")
  /\ pc' = "rs_parsing"
  /\ UNCHANGED << err, result, text, version, NotDetect >>

\* the called parser returns its table or raises; read_spectra passes on
\* either outcome and calls nothing else
RSParserEnds ==
  /\ pc = "rs_parsing"
  /\ \/ pc' = "done" /\ err' = err /\ result' = << called[Len(called)] >>
     \/ pc' = "error" /\ err' = "ParserError" /\ result' = result
  /\ UNCHANGED << text, version, called, NotDetect >>

InitDetect ==
  /\ pc = "rs_detect"
  /\ err = ""
  /\ result = None
  /\ FirstCall
  /\ NoWidget
  /\ text \in Texts
  /\ IdleDetect
  /\ file = << >>
  /\ IdleV1
  /\ NoModernInput

NextDetect == RSDetect \/ RSDispatch \/ RSParserEnds

SpecDetect == InitDetect /\ [][NextDetect]_vars

\* C1: read_spectra runs read_v2 exactly when the file starts with the two
\* characters "#" and " ", read_v1 for every other file (also one shorter
\* than two characters), and runs exactly one parser per call.
C1_FormatDetection ==
  /\ pc \in {"rs_detect", "rs_dispatch"} => called = << >>
  /\ pc \in {"rs_parsing", "done", "error"} =>
       /\ Len(called) = 1
       /\ called[1] \in {"read_v1", "read_v2"}
       /\ called[1] = "read_v2" <=>
            (Len(text) >= 2 /\ text[1] = "#" /\ text[2] = " ")

\* C1 witness: a file starting with "#" and a non-space went to read_v1.
C1_Witness ==
  /\ pc = "done"
  /\ Len(text) >= 2
  /\ text[1] = "#"
  /\ text[2] # " "
  /\ called = << "read_v1" >>

\* ========================================================= NeaReader.read_v2

\* Longest numeric block of a modern file, in lines.
MaxLines == 4

\* Values of the row, column and omega index columns of a line.
IndexVals == {0, 1}

\* Column header lines a modern file may carry.
HeaderLines ==
  { << "Row", "Column", "Omega", "Wavenumber", "O2A", "O2P" >>,
    << "Row", "Column", "Omega", "Wavenumber", "O2A" >>,
    << "Row", "Column", "Wavenumber", "Omega", "O2A", "O2P" >>,
    << "Row", "Column", "Omega", "Depth", "Wavenumber", "O2A" >>,
    << "Row", "Column", "Omega", "Wavenumber" >>,
    << "Row", "Column", "Omega", "O2A" >> }

\* The number in line n (from 1), column c (from 0) of the numeric block,
\* for the columns after the three index columns: a value that occurs once.
Cell(n, c) == 10 * n + c

\* A line of the numeric block with the given indices, width columns wide.
BlockLine(n, idx, width) ==
  [ c \in 1..width |-> IF c <= 3 THEN idx[c] ELSE Cell(n, c - 1) ]

\* file[:, c] of lines a..b (numbered from 1), c numbered from 0
Column(mat, a, b, c) == [ n \in 1..(b - a + 1) |-> mat[a + n - 1][c + 1] ]

\* file[:, c].max()
ColumnMax(mat, c) == SetMax({ mat[n][c + 1] : n \in 1..Len(mat) })

\* the first position (from 0) of name e in the header line, None if absent
FirstIndex(hdr, e) ==
  IF \E n \in 1..Len(hdr) : hdr[n] = e
  THEN << SetMin({ n \in 1..Len(hdr) : hdr[n] = e }) - 1 >>
  ELSE None

\* lines 146-155: find "Wavenumber", take the names after it as channels
V2Header ==
  /\ pc = "v2_header"
  /\ index' = FirstIndex(line, "Wavenumber")
  /\ IF index' = None
     THEN \* "index" is read before any assignment
          /\ pc' = "error"
          /\ err' = "UnboundLocalError"
          /\ Channel' = Channel
     ELSE /\ Channel' = SubSeq(line, index'[1] + 2, Len(line))
          /\ pc' = "v2_geometry"
          /\ err' = err
  /\ UNCHANGED << result, line, matrix, Max_row, Max_col, Max_omega, M, j,
                  Meta_data, NotV2 >>

\* N_rows = Max_row * Max_col * Channel.size
N_rows(nrow, ncol, nchan) == nrow * ncol * nchan

\* np.full((N_rows, N_cols), np.nan)
FullNaN(nrows, ncols) == [ r \in 0..(nrows - 1) |-> [ c \in 1..ncols |-> NaN ] ]

\* lines 157-164: geometry from the index columns, the empty output matrix
V2Geometry ==
  /\ pc = "v2_geometry"
  /\ IF Len(matrix) < 2
     THEN \* loadtxt returns a one-dimensional array: file[:, 0] fails
          /\ pc' = "error"
          /\ err' = "IndexError"
          /\ UNCHANGED << Max_row, Max_col, Max_omega, M >>
     ELSE /\ Max_row' = ColumnMax(matrix, 0) + 1
          /\ Max_col' = ColumnMax(matrix, 1) + 1
          /\ Max_omega' = ColumnMax(matrix, 2) + 1
          /\ M' = FullNaN(N_rows(Max_row', Max_col', Len(Channel)), Max_omega')
          /\ pc' = "v2_blocks"
          /\ err' = err
  /\ j' = 0
  /\ UNCHANGED << result, line, matrix, index, Channel, Meta_data, NotV2 >>

\* an assert that is not evaluated
AssertsIgnored(v) == TRUE

\* np.all(v == v[0])
AllEqualFirst(v) == \A n \in 1..Len(v) : v[n] = v[1]

\* assigning a vector to a row of n samples: a one-element vector is
\* broadcast to the whole row
Broadcast(v, n) == IF Len(v) = n THEN v ELSE [ c \in 1..n |-> v[1] ]

\* one iteration of "for j in range(int(Max_row * Max_col))"
V2Block ==
  /\ pc = "v2_blocks"
  /\ j < Max_row * Max_col
  /\ LET a == j * Max_omega + 1
         b == IF (j + 1) * Max_omega < Len(matrix)
              THEN (j + 1) * Max_omega ELSE Len(matrix)
         n == b - a + 1
         C == Len(Channel)
         W == Len(matrix[1])
         fail(kind) == /\ pc' = "error"
                       /\ err' = kind
                       /\ UNCHANGED << M, j >>
     IN  IF n <= 0
         THEN fail("IndexError")       \* row_value[0] of an empty slice
         ELSE IF \/ ~AllEqualFirst(Column(matrix, a, b, 0))
                 \/ ~AllEqualFirst(Column(matrix, a, b, 1))
         THEN fail("AssertionError")
         ELSE IF C > 0 /\ W <= 4
         THEN fail("IndexError")       \* column k + 4 does not exist
         ELSE IF C > 0 /\ n # Max_omega /\ n # 1
         THEN fail("ValueError")       \* a short slice does not fit the row
         ELSE IF C > 0 /\ C + 4 > W
         THEN fail("IndexError")       \* column k + 4 does not exist
         ELSE /\ M' = [ r \in DOMAIN M |->
                         IF r \in (C * j)..(C * j + C - 1)
                         THEN Broadcast(Column(matrix, a, b, (r - C * j) + 4),
                                        Max_omega)
                         ELSE M[r] ]
              /\ j' = j + 1
              /\ pc' = pc
              /\ err' = err
  /\ UNCHANGED << result, line, matrix, index, Channel, Max_row, Max_col,
                  Max_omega, Meta_data, NotV2 >>

\* lines 176-189: group g of Ch_n rows gets row = g mod Max_row (beta) and
\* column = g div Max_row (alpha): beta wraps at Max_row and bumps alpha
V2Meta ==
  /\ pc = "v2_blocks"
  /\ j = Max_row * Max_col
  /\ IF Len(Channel) = 0
     THEN \* range(0, N_rows, 0)
          /\ pc' = "error"
          /\ err' = "ValueError"
          /\ Meta_data' = Meta_data
     ELSE /\ Meta_data' =
               [ r \in DOMAIN M |->
                   << (r \div Len(Channel)) % Max_row,
                      (r \div Len(Channel)) \div Max_row,
                      Channel[(r % Len(Channel)) + 1] >> ]
          /\ pc' = "v2_return"
          /\ err' = err
  /\ UNCHANGED << result, line, matrix, index, Channel, Max_row, Max_col,
                  Max_omega, M, j, NotV2 >>

\* rows 0..n-1 of an array as a sequence
AsRows(arr) == [ n \in 1..Cardinality(DOMAIN arr) |-> arr[n - 1] ]

\* an axis taken from the omega column
waveNFromOmega(mat, omega) ==
  Column(mat, 1, IF omega < Len(mat) THEN omega ELSE Len(mat), 2)

\* an axis taken from every line of the numeric block
waveNWholeColumn(mat, omega) == Column(mat, 1, Len(mat), 3)

\* waveN = file[0 : int(Max_omega), 3]
waveN(mat, omega) ==
  Column(mat, 1, IF omega < Len(mat) THEN omega ELSE Len(mat), 3)

\* lines 192-200: the metadata table and the return
V2Return ==
  /\ pc = "v2_return"
  /\ result' =
       [ X |-> waveN(matrix, Max_omega),
         data |-> AsRows(M),
         metas |-> AsRows(Meta_data) ]
  /\ pc' = "done"
  /\ err' = err
  /\ UNCHANGED << v2vars, NotV2 >>

\* the numeric block whose lines carry the given index triples
MakeMatrix(idx, width) == [ n \in DOMAIN idx |-> BlockLine(n, idx[n], width) ]

\* ====================================== NeaReaderMultiChannelTXT.read_spectra

\* Longest table of a multichannel file, in lines.
MaxTableLines == 4

\* Values of a header number (a pixel count, the depth, the averaging).
HeaderNumbers == {1, 2}

AreaKey == "Pixel Area (X, Y, Z)"

AveragingKey == "Averaging"

\* "# Pixel Area (X, Y, Z):\t[px]\t<cols>\t<rows>\t<depth>"
AreaLine(c, r, d) ==
  [ k |-> AreaKey,
    v |-> << << "[", "p", "x", "]" >>, FormatInt(c), FormatInt(r), FormatInt(d) >> ]

\* "# Averaging:\t<runs>"
AveragingLine(a) == [ k |-> AveragingKey, v |-> << FormatInt(a) >> ]

\* "# Scan:\tFourier Scan", the line the parser skips when it is the first
ScanLine == [ k |-> "Scan", v |-> << << "F", "S" >> >> ]

\* The "#" lines a multichannel file may carry: none, or the scan line
\* followed by the pixel area and the averaging, each present or not.
HeaderBlocks ==
  { << >> }
  \cup
  { << ScanLine >> \o area \o avg :
      area \in { << >> } \cup
               { << AreaLine(c, r, d) >> : c \in HeaderNumbers,
                                            r \in HeaderNumbers,
                                            d \in HeaderNumbers },
      avg \in { << >> } \cup { << AveragingLine(a) >> : a \in HeaderNumbers } }

N_Row == << "R", "o", "w" >>
N_Column == << "C", "o", "l", "u", "m", "n" >>
N_Run == << "R", "u", "n" >>
N_Depth == << "D", "e", "p", "t", "h" >>
N_O2A == << "O", "2", "A" >>
N_O2P == << "O", "2", "P" >>
N_O0A == << "O", "0", "A" >>
N_O2AX == << "O", "2", "A", "x" >>
N_O2Comma == << "O", "2", "," >>

\* Column name lines a multichannel file may carry.
TableHeaders ==
  { << N_Row, N_Column, N_Run, N_Depth, N_O2A, N_O2P >>,
    << N_Row, N_Column, N_Run, N_Depth, N_O2A >>,
    << N_Row, N_Column, N_Run, N_Depth >>,
    << N_Column, N_Run, N_Depth, N_O2A >>,
    << N_Row, N_Column, N_Run, N_O0A, N_O2A, N_O2AX >>,
    << N_Row, N_Column, N_Run, N_O2Comma, N_O2P >> }

\* The table of len lines under the column names: every cell occurs once.
TableOf(len, names) ==
  [ n \in 1..len |-> [ c \in 1..Len(names) |-> Cell(n, c - 1) ] ]

\* lineparser: a one-cell value is the cell, any other the list of cells
lineparser(ln) == << ln.k, IF Len(ln.v) = 1 THEN ln.v[1] ELSE ln.v >>

\* info after "for line in header[1:]: info.update({k: v})"
ParseHeader(hdr) ==
  LET rest == SubSeq(hdr, 2, Len(hdr))
      keys == { rest[n].k : n \in 1..Len(rest) }
      last(key) == SetMax({ n \in 1..Len(rest) : rest[n].k = key })
  IN  [ key \in keys |-> lineparser(rest[last(key)])[2] ]

\* re.match(r"O[1-9][A,P]", dh): anchored at the start only, and the class
\* [A,P] holds the comma too
MatchesChannel(dh) ==
  /\ Len(dh) >= 3
  /\ dh[1] = "O"
  /\ IsDigit(dh[2]) /\ dh[2] # "0"
  /\ dh[3] \in { "A", ",", "P" }

\* the positions (from 0), ascending, of the names that match the pattern
RECURSIVE ValidCols(_, _)
ValidCols(names, upto) ==
  IF upto = 0 THEN << >>
  ELSE ValidCols(names, upto - 1)
         \o (IF MatchesChannel(names[upto]) THEN << upto - 1 >> ELSE << >>)

\* lines 353-366: split the "#" lines from the table; without any "#" line
\* the KeyError object is returned to the caller, not raised
MCOpen ==
  /\ pc = "mc_open"
  /\ IF Len(header) = 0
     THEN /\ pc' = "done"
          /\ result' = [ exception |-> "KeyError" ]
     ELSE /\ pc' = "mc_info"
          /\ result' = result
  /\ UNCHANGED << err, mcvars, NotMC >>

\* lines 368-392: the header dictionary and the channel columns
MCInfo ==
  /\ pc = "mc_info"
  /\ info' = ParseHeader(header)
  /\ valid_channel_cols' = ValidCols(table_data_headers, Len(table_data_headers))
  /\ pc' = "mc_shape"
  /\ UNCHANGED << err, result, header, table_data_headers, input_data, shape,
                  out_data, out_meta, loop_step, NotMC >>

\* an output sized without the runs
OutRowsPerPixel(channels, geo) == channels * geo.rows * geo.cols

\* out_rows = len(valid_channel_cols) * runs * rows * cols
OutRows(channels, geo) == channels * geo.runs * geo.rows * geo.cols

\* np.zeros((nrows, ncols))
Zeros(nrows, ncols) == [ r \in 0..(nrows - 1) |-> [ c \in 1..ncols |-> 0 ] ]

\* lines 397-415: geometry from the header, empty output arrays, the
\* positions of the Row, Column and Run columns
MCShape ==
  /\ pc = "mc_shape"
  /\ IF AreaKey \notin DOMAIN info \/ AveragingKey \notin DOMAIN info
     THEN /\ pc' = "error"
          /\ err' = "KeyError"
          /\ UNCHANGED << shape, out_data, out_meta >>
     ELSE LET area == info[AreaKey]
              geo  == [ cols  |-> IntOf(area[2]),
                        rows  |-> IntOf(area[3]),
                        depth |-> IntOf(area[4]),
                        runs  |-> IntOf(info[AveragingKey]) ]
              out_rows == OutRows(Len(valid_channel_cols), geo)
          IN  /\ shape' = geo
              /\ out_data' = Zeros(out_rows, geo.depth)
              /\ out_meta' = [ r \in 0..(out_rows - 1) |-> << >> ]
              /\ IF \E name \in { N_Row, N_Column, N_Run } :
                      FirstIndex(table_data_headers, name) = None
                 THEN \* np.where(...)[0][0] of an empty array
                      pc' = "error" /\ err' = "IndexError"
                 ELSE pc' = "mc_fill" /\ err' = err
  /\ loop_step' = 0
  /\ UNCHANGED << result, header, table_data_headers, input_data, info,
                  valid_channel_cols, NotMC >>

\* a block start that ignores the depth
InputTableIndexOfStep(depth, step) == step

\* input_table_index = depth * loop_step
InputTableIndex(depth, step) == depth * step

\* one (row, column, run) iteration of the loops of lines 423-447;
\* loop_step = row * cols * runs + column * runs + run counts them in order
MCFill ==
  /\ pc = "mc_fill"
  /\ loop_step < shape.rows * shape.cols * shape.runs
  /\ LET input_table_index == InputTableIndex(shape.depth, loop_step)
         channels_len == Len(valid_channel_cols)
         last == IF input_table_index + shape.depth < Len(input_data)
                 THEN input_table_index + shape.depth ELSE Len(input_data)
         n == last - input_table_index
         at(name) == FirstIndex(table_data_headers, name)[1] + 1
     IN  IF input_table_index >= Len(input_data)
         THEN /\ pc' = "error"
              /\ err' = "IndexError"
              /\ UNCHANGED << out_data, out_meta, loop_step >>
         ELSE IF channels_len > 0 /\ n # shape.depth /\ n # 1
         THEN /\ pc' = "error"
              /\ err' = "ValueError"
              /\ UNCHANGED << out_data, out_meta, loop_step >>
         ELSE LET first == loop_step * channels_len
                  mine(r) == r \in first..(first + channels_len - 1)
                  col(r) == valid_channel_cols[(r - first) + 1]
                  top == input_data[input_table_index + 1]
              IN  /\ out_data' =
                       [ r \in DOMAIN out_data |->
                           IF mine(r)
                           THEN Broadcast(Column(input_data, input_table_index + 1,
                                                 last, col(r)), shape.depth)
                           ELSE out_data[r] ]
                  /\ out_meta' =
                       [ r \in DOMAIN out_meta |->
                           IF mine(r)
                           THEN << top[at(N_Column)], top[at(N_Row)], top[at(N_Run)],
                                   table_data_headers[col(r) + 1] >>
                           ELSE out_meta[r] ]
                  /\ loop_step' = loop_step + 1
                  /\ pc' = pc
                  /\ err' = err
  /\ UNCHANGED << result, header, table_data_headers, input_data, info,
                  valid_channel_cols, shape, NotMC >>

\* lines 449-468: the reader key is added to info and the table returned
MCReturn ==
  /\ pc = "mc_fill"
  /\ loop_step = shape.rows * shape.cols * shape.runs
  /\ info' = [ key \in (DOMAIN info) \cup { "Reader" } |->
                 IF key = "Reader" THEN "NeaReaderGSF" ELSE info[key] ]
  /\ result' = [ X |-> [ c \in 1..shape.depth |-> c - 1 ],
                 data |-> AsRows(out_data),
                 metas |-> AsRows(out_meta),
                 attributes |-> info' ]
  /\ pc' = "done"
  /\ UNCHANGED << err, header, table_data_headers, input_data,
                  valid_channel_cols, shape, out_data, out_meta, loop_step,
                  NotMC >>

\* =========================================== the commented-table parsers

InitModern ==
  /\ err = ""
  /\ result = None
  /\ FirstCall
  /\ NoWidget
  /\ text = << >>
  /\ IdleDetect
  /\ file = << >>
  /\ IdleV1
  /\ NoGSFInput
  /\ \/ /\ pc = "v2_header"
        /\ line \in HeaderLines
        /\ \E len \in 1..MaxLines :
             \E idx \in [ 1..len -> [ 1..3 -> IndexVals ] ] :
                matrix = MakeMatrix(idx, Len(line))
        /\ IdleV2
        /\ NoMCInput
     \/ /\ pc = "mc_open"
        /\ header \in HeaderBlocks
        /\ table_data_headers \in TableHeaders
        /\ \E len \in 0..MaxTableLines :
             input_data = TableOf(len, table_data_headers)
        /\ IdleMC
        /\ NoV2Input

NextModern ==
  \/ V2Header \/ V2Geometry \/ V2Block \/ V2Meta \/ V2Return
  \/ MCOpen \/ MCInfo \/ MCShape \/ MCFill \/ MCReturn

SpecModern == InitModern /\ [][NextModern]_vars

\* a table, not an exception object, was returned
TableReturned == pc = "done" /\ "data" \in DOMAIN result

\* grid geometry of a read_v2 file, from its index columns and header line
V2Rows == 1 + SetMax({ matrix[n][1] : n \in 1..Len(matrix) })

V2Columns == 1 + SetMax({ matrix[n][2] : n \in 1..Len(matrix) })

V2Runs == 1 + SetMax({ matrix[n][3] : n \in 1..Len(matrix) })

V2Channels ==
  Len(line) - (CHOOSE n \in 1..Len(line) :
                 /\ line[n] = "Wavenumber"
                 /\ \A k \in 1..(n - 1) : line[k] # "Wavenumber")

\* the cells of the last header line of a multichannel file with key
HeaderValue(key) ==
  header[CHOOSE n \in 2..Len(header) :
           /\ header[n].k = key
           /\ \A k \in (n + 1)..Len(header) : header[k].k # key].v

\* the number a header cell spells: the n with "%d" % n equal to the cell
NumberIn(cell) == CHOOSE n \in 0..9 : FormatInt(n) = cell

MCColumns == NumberIn(HeaderValue(AreaKey)[2])

MCRows == NumberIn(HeaderValue(AreaKey)[3])

MCRuns == NumberIn(HeaderValue(AveragingKey)[1])

\* the selected channel columns: the names O<digit 1-9><A or P>...
MCChannels ==
  Cardinality({ n \in 1..Len(table_data_headers) :
                  LET dh == table_data_headers[n]
                  IN  /\ Len(dh) >= 3
                      /\ dh[1] = "O"
                      /\ dh[2] \in { "1", "2", "3", "4", "5", "6", "7", "8", "9" }
                      /\ dh[3] \in { "A", "P", "," } })

\* C10 as claimed: both commented-table parsers return
\* rows x columns x channels x runs data rows.
C10_RowsTimesRuns ==
  /\ (TableReturned /\ line # << >>) =>
        Len(result.data) = V2Rows * V2Columns * V2Channels * V2Runs
  /\ (TableReturned /\ header # << >>) =>
        Len(result.data) = MCRows * MCColumns * MCChannels * MCRuns

\* C10 amended: NeaReaderMultiChannelTXT returns rows x columns x channels
\* x runs data rows; read_v2 returns rows x columns x channels data rows,
\* each holding one sample per run (omega) index.
C10_RowCount ==
  /\ (TableReturned /\ line # << >>) =>
        /\ Len(result.data) = V2Rows * V2Columns * V2Channels
        /\ \A n \in 1..Len(result.data) : Len(result.data[n]) = V2Runs
  /\ (TableReturned /\ header # << >>) =>
        Len(result.data) = MCRows * MCColumns * MCChannels * MCRuns

\* C10 witness: read_v2 returned the table of a file with two run indices
\* and two channels.
C10_Witness ==
  /\ TableReturned
  /\ line # << >>
  /\ V2Runs = 2
  /\ V2Channels = 2
  /\ Len(result.data) = 2 * V2Rows * V2Columns

\* ------------------------------------------------- read_v2: block consistency

\* the call has ended, with a value or with an exception
Terminated == pc \in { "done", "error" }

\* a read_v2 file is being read
V2Input == line # << >>

HasWavenumber == \E n \in 1..Len(line) : line[n] = "Wavenumber"

\* the lines (from 1) of pixel block b (from 0): V2Runs consecutive lines
V2BlockLines(b) ==
  { n \in 1..Len(matrix) : b * V2Runs < n /\ n <= (b + 1) * V2Runs }

\* the row index and the column index are the same on every line of block b
V2BlockConstant(b) ==
  \A m, n \in V2BlockLines(b) :
     matrix[m][1] = matrix[n][1] /\ matrix[m][2] = matrix[n][2]

V2AllBlocksConstant ==
  \A b \in 0..(V2Rows * V2Columns - 1) : V2BlockConstant(b)

\* the numeric block has a column k + 4 for every channel k
V2ChannelColumnsExist ==
  HasWavenumber /\ (V2Channels = 0 \/ V2Channels + 4 <= Len(matrix[1]))

\* C11 as claimed: whenever a pixel block of the numeric block is not
\* constant in its row index or its column index, read_v2 ends with an
\* AssertionError; it returns a table only if every block is constant.
C11_AlwaysAssertionError ==
  (V2Input /\ Terminated) =>
     /\ ~V2AllBlocksConstant => (pc = "error" /\ err = "AssertionError")
     /\ TableReturned => V2AllBlocksConstant

\* C11 amended: whenever a pixel block is not constant in its row index or
\* its column index, read_v2 returns no table; the exception is the
\* AssertionError when the header names "Wavenumber" and the numeric block
\* has a column for every channel, and otherwise the earlier
\* UnboundLocalError or IndexError of those defects (or the AssertionError
\* when the very first block is the inconstant one).  A table is returned
\* only if every block is constant.
C11_NoTableFromInconstantBlock ==
  (V2Input /\ Terminated) =>
     /\ ~V2AllBlocksConstant =>
          /\ pc = "error"
          /\ ~HasWavenumber => err = "UnboundLocalError"
          /\ HasWavenumber => err \in { "AssertionError", "IndexError" }
          /\ V2ChannelColumnsExist => err = "AssertionError"
          /\ (HasWavenumber /\ ~V2BlockConstant(0)) => err = "AssertionError"
     /\ TableReturned => V2AllBlocksConstant

\* C11 witness: the first block was copied and the second one, whose lines
\* differ in the row index, stopped the call.
C11_Witness ==
  /\ V2Input
  /\ pc = "error"
  /\ err = "AssertionError"
  /\ j = 1
  /\ V2BlockConstant(0)
  /\ ~V2BlockConstant(1)
  /\ V2Channels >= 1
  /\ M[0] # [ c \in 1..Max_omega |-> NaN ]

\* ------------------------------------------------------------ read_v2: axis

\* the values of column c (from 0) on the lines of the first pixel block
V2FirstBlockColumn(c) == [ n \in 1..V2Runs |-> matrix[n][c + 1] ]

\* C12 as claimed: the axis read_v2 returns is the run-index (omega,
\* column 2) values of the first pixel block, unchanged.
C12_AxisIsOmegaColumn ==
  (V2Input /\ TableReturned) => result.X = V2FirstBlockColumn(2)

\* C12 amended: the axis read_v2 returns is the column 3 (the "Wavenumber"
\* column of the usual layout) values of the first pixel block, unchanged.
C12_AxisIsColumnThree ==
  (V2Input /\ TableReturned) => result.X = V2FirstBlockColumn(3)

\* C12 witness: a table with a two-point axis, the column 3 values of the
\* first two lines, was returned.
C12_Witness ==
  /\ V2Input
  /\ TableReturned
  /\ V2Runs = 2
  /\ result.X = << Cell(1, 3), Cell(2, 3) >>
  /\ result.X # << matrix[1][3], matrix[2][3] >>

\* -------------------------------------------------- read_v2: channel columns

\* position (from 0) of the first "Wavenumber" cell of the header line
V2WavenumberAt ==
  CHOOSE n \in 0..(Len(line) - 1) :
    /\ line[n + 1] = "Wavenumber"
    /\ \A k \in 1..n : line[k] # "Wavenumber"

\* position (from 0) in the header line of the k-th (from 0) channel name
V2ChannelAt(k) == V2WavenumberAt + 1 + k

\* the values of column c (from 0) on the lines of pixel block b
V2BlockValues(b, c) ==
  [ n \in 1..Cardinality(V2BlockLines(b)) |-> matrix[b * V2Runs + n][c + 1] ]

\* C13: the channels are the header names after "Wavenumber", and output
\* row k + channels * j holds, under the k-th channel name, the values that
\* block j has in the matrix column with that header name, wherever
\* "Wavenumber" stands in the header.
C13_RowsHoldNamedColumns ==
  (V2Input /\ TableReturned) =>
     \A b \in 0..(V2Rows * V2Columns - 1), k \in 0..(V2Channels - 1) :
        LET r == k + V2Channels * b + 1
        IN  /\ result.metas[r][3] = line[V2ChannelAt(k) + 1]
            /\ result.data[r] = V2BlockValues(b, V2ChannelAt(k))

\* ================================================================ NeaReaderGSF

\* ------------------------------------------------------------ str operations

\* the characters s[k], s[k+1], ... spell sub
StartsAt(s, k, sub) ==
  /\ k + Len(sub) - 1 <= Len(s)
  /\ SubSeq(s, k, k + Len(sub) - 1) = sub

\* s.split(sep) for a non-empty sep: the pieces between the occurrences of
\* sep, found from the left; start is where the running piece begins
RECURSIVE SplitFrom(_, _, _, _)
SplitFrom(s, sep, k, start) ==
  IF k > Len(s) THEN << SubSeq(s, start, Len(s)) >>
  ELSE IF StartsAt(s, k, sep)
  THEN << SubSeq(s, start, k - 1) >>
         \o SplitFrom(s, sep, k + Len(sep), k + Len(sep))
  ELSE SplitFrom(s, sep, k + 1, start)

split(s, sep) == SplitFrom(s, sep, 1, 1)

\* s.replace(old, new) for a non-empty old: every occurrence, from the left
RECURSIVE ReplaceFrom(_, _, _, _)
ReplaceFrom(s, old, new, k) ==
  IF k > Len(s) THEN << >>
  ELSE IF StartsAt(s, k, old)
  THEN new \o ReplaceFrom(s, old, new, k + Len(old))
  ELSE << s[k] >> \o ReplaceFrom(s, old, new, k + 1)

replace(s, old, new) == ReplaceFrom(s, old, new, 1)

\* s.strip(chars): every leading and every trailing character of the set
StripChars(s, chars) ==
  LET keep == { n \in 1..Len(s) : s[n] \notin chars }
  IN  IF keep = {} THEN << >> ELSE SubSeq(s, SetMin(keep), SetMax(keep))

Whitespace == { " ", "\t", "\n" }

\* s.strip()
strip(s) == StripChars(s, Whitespace)

\* c in s
Contains(s, c) == \E n \in 1..Len(s) : s[n] = c

\* ------------------------------------------------------------------- inputs

File_O2A == << "d", " ", "O", "2", "A", " ", "r", "a", "w", ".", "g", "s", "f" >>

File_O2P == << "d", " ", "O", "2", "P", " ", "r", "a", "w", ".", "g", "s", "f" >>

File_Z == << "d", " ", "Z", " ", "r", "a", "w", ".", "g", "s", "f" >>

File_PA == << "d", " ", "P", "A", " ", "r", "a", "w", ".", "g", "s", "f" >>

File_NoSpace == << "d", ".", "g", "s", "f" >>

\* The file names NeaReaderGSF may be given; each is a file on disk.
Filenames == { File_O2A, File_O2P, File_Z, File_PA, File_NoSpace }

\* Most rows a raster on disk has.
MaxImageRows == 2

\* Lengths of a raster row on disk.
RowLengths == { 1, 2, 4, 8 }

\* The sample at offset o (from 0) of row r (from 0) of the raster stored
\* under path: a value that occurs in one place of one file only.
Sample(path, r, o) ==
  LET id == CHOOSE n \in 1..5 :
              << File_O2A, File_O2P, File_Z, File_PA, File_NoSpace >>[n] = path
  IN  1000 * id + 100 * r + o

\* reader_gsf(path): the raster stored under path, row by row
Raster(path, dims) ==
  [ r \in 1..dims.rows |-> [ o \in 1..dims.width |-> Sample(path, r - 1, o - 1) ] ]

K_Averaging == << "A", "v", "e", "r", "a", "g", "i", "n", "g" >>

K_Area == << "P", "i", "x", "e", "l", " ", "A", "r", "e", "a", " ", "(", "X", ",", " ", "Y", ",", " ", "Z", ")" >>

K_Reader == << "R", "e", "a", "d", "e", "r" >>

K_Scan == << "S", "c", "a", "n" >>

V_NeaReaderGSF == << "N", "e", "a", "R", "e", "a", "d", "e", "r", "G", "S", "F" >>

V_Px == << "[", "p", "x", "]" >>

Colon == << ":" >>

\* a table row of the report: the cells of its <td> elements
AreaRow(x, yy, z) ==
  << K_Area \o Colon, V_Px, FormatInt(x), FormatInt(yy), FormatInt(z) >>

AveragingRow(a) == << K_Averaging \o Colon, FormatInt(a) >>

\* Rows a report may carry besides the pixel area and the averaging: a row
\* labelled "Reader", a label wrapped in colons with a blank cell among its
\* values, a label without values, a label written twice, a row without
\* cells.
ExtraRows ==
  { << >>,
    << << K_Reader \o Colon, << "x" >> >> >>,
    << << Colon \o K_Scan \o Colon \o Colon, << "F" >>, << " " >>, << "S" >> >> >>,
    << << K_Scan \o Colon >> >>,
    << << K_Scan \o Colon, << "F" >> >>, << K_Scan \o Colon, << "S" >>, << "T" >> >> >>,
    << << >> >> }

\* The tables a report may carry.
ReportTables ==
  { area \o avg \o extra :
      area \in { << >> } \cup
               { << AreaRow(x, yy, z) >> : x \in HeaderNumbers,
                                             yy \in HeaderNumbers,
                                             z \in HeaderNumbers },
      avg \in { << >> } \cup { << AveragingRow(a) >> : a \in HeaderNumbers },
      extra \in ExtraRows }

StartTag(tag) == [ kind |-> "starttag", tag |-> tag, data |-> << >> ]

EndTag(tag) == [ kind |-> "endtag", tag |-> tag, data |-> << >> ]

Data(chars) == [ kind |-> "data", tag |-> "", data |-> chars ]

\* <td>cell</td> for each cell of the row
RECURSIVE CellEvents(_, _)
CellEvents(row, n) ==
  IF n = 0 THEN << >>
  ELSE CellEvents(row, n - 1) \o << StartTag("td"), Data(row[n]), EndTag("td") >>

\* <tr>...</tr> for each row of the table
RECURSIVE RowEvents(_, _)
RowEvents(rows, n) ==
  IF n = 0 THEN << >>
  ELSE RowEvents(rows, n - 1)
         \o << StartTag("tr") >> \o CellEvents(rows[n], Len(rows[n]))
         \o << EndTag("tr") >>

\* the report holding the table: <html><table>...</table></html>
ReportOf(rows) ==
  << StartTag("html"), Data(<< "\n" >>), StartTag("table") >>
    \o RowEvents(rows, Len(rows))
    \o << EndTag("table"), EndTag("html") >>

\* Reports without a table: an empty one, and one that holds only text.
TablelessReports ==
  { << >>, << StartTag("html"), Data(<< "x" >>), EndTag("html") >> }

\* ------------------------------------------------------------- _html_reader

\* HTMLTableParser.__init__
NewParser ==
  [ _current_row |-> << >>, _current_table |-> << >>, _in_cell |-> FALSE,
    tables |-> << >> ]

\* handle_starttag
handle_starttag(p, tag) ==
  IF tag = "td" THEN [ p EXCEPT !._in_cell = TRUE ] ELSE p

\* handle_endtag
handle_endtag(p, tag) ==
  IF tag = "tr"
  THEN [ p EXCEPT !._current_table = Append(@, p._current_row),
                  !._current_row = << >> ]
  ELSE IF tag = "table"
  THEN [ p EXCEPT !.tables = Append(@, p._current_table),
                  !._current_table = << >> ]
  ELSE IF tag = "td"
  THEN [ p EXCEPT !._in_cell = FALSE ]
  ELSE p

\* a handler that takes text wherever it stands
handle_data_anywhere(p, data) ==
  [ p EXCEPT !._current_row = Append(@, strip(data)) ]

\* handle_data
handle_data(p, data) ==
  IF p._in_cell
  THEN [ p EXCEPT !._current_row = Append(@, strip(data)) ]
  ELSE p

\* the handler p.feed calls for one tag or text of the report
HandleEvent(p, e) ==
  IF e.kind = "starttag" THEN handle_starttag(p, e.tag)
  ELSE IF e.kind = "endtag" THEN handle_endtag(p, e.tag)
  ELSE handle_data(p, e.data)

\* ------------------------------------------------- NeaReaderGSF.read_spectra

Suffix_A == << "A", " ", "r", "a", "w", ".", "g", "s", "f" >>

Suffix_P == << "P", " ", "r", "a", "w", ".", "g", "s", "f" >>

Ext_html == << ".", "h", "t", "m", "l" >>

\* The metadata report on disk.
ReportName == << "d", ".", "h", "t", "m", "l" >>

\* the exception of lines 220-221, "" when they raise none
NameError(name) ==
  LET tokens == split(name, << " " >>)
  IN  IF Len(tokens) < 2 THEN "IndexError"      \* [-2] of a one-element list
      ELSE IF strip(tokens[Len(tokens) - 1]) = << >>
      THEN "ValueError"                         \* split with an empty separator
      ELSE ""

\* file_channel = str(self.filename.split(" ")[-2]).strip()
FileChannel(name) ==
  LET tokens == split(name, << " " >>)
  IN  strip(tokens[Len(tokens) - 1])

\* folder_file = str(self.filename.split(file_channel)[-2]).strip()
FolderFile(name) ==
  LET parts == split(name, FileChannel(name))
  IN  strip(parts[Len(parts) - 1])

\* a companion name made by changing the channel letter wherever it stands
CompanionByLetter(name, old, new) ==
  replace(name, SubSeq(old, 1, 1), SubSeq(new, 1, 1))

\* self.filename.replace("P raw.gsf", "A raw.gsf") and its mirror image
Companion(name, old, new) == replace(name, old, new)

\* an attribute that keeps the value an earlier read gave it
KeepAttr(old, new) == IF old = None THEN new ELSE old

\* self.<attribute> = new
SetAttr(old, new) == new

\* lines 220-236: the channel labels and the three file names
GSFNames ==
  /\ pc = "gsf_names"
  /\ IF NameError(filename) # ""
     THEN /\ pc' = "error"
          /\ err' = NameError(filename)
          /\ UNCHANGED << channel_a, channel_p, file_gsf_a, file_gsf_p,
                          file_html >>
     ELSE LET file_channel == FileChannel(filename)
          IN  IF Contains(file_channel, "P")
              THEN /\ channel_p' = SetAttr(channel_p, file_channel)
                   /\ channel_a' = SetAttr(channel_a,
                                            replace(file_channel, << "P" >>, << "A" >>))
                   /\ file_gsf_p' = filename
                   /\ file_gsf_a' = Companion(filename, Suffix_P, Suffix_A)
                   /\ file_html' = FolderFile(filename) \o Ext_html
                   /\ pc' = "gsf_read_a"
                   /\ err' = err
              ELSE IF Contains(file_channel, "A")
              THEN /\ channel_a' = SetAttr(channel_a, file_channel)
                   /\ channel_p' = SetAttr(channel_p,
                                            replace(file_channel, << "A" >>, << "P" >>))
                   /\ file_gsf_a' = filename
                   /\ file_gsf_p' = Companion(filename, Suffix_A, Suffix_P)
                   /\ file_html' = FolderFile(filename) \o Ext_html
                   /\ pc' = "gsf_read_a"
                   /\ err' = err
              ELSE /\ pc' = "error"
                   /\ err' = "ValueError"
                   /\ UNCHANGED << channel_a, channel_p, file_gsf_a,
                                   file_gsf_p, file_html >>
  /\ UNCHANGED << parser, fed, result, filename, disk, html, data_gsf_a, data_gsf_p,
                  parameters, format_info, px, data_complete, format_metas, y,
                  NotGSF >>

\* data_gsf_a = self._gsf_reader(file_gsf_a)
GSFReadA ==
  /\ pc = "gsf_read_a"
  /\ IF file_gsf_a \in Filenames
     THEN /\ data_gsf_a' = Raster(file_gsf_a, disk)
          /\ pc' = "gsf_read_p"
          /\ err' = err
     ELSE /\ data_gsf_a' = data_gsf_a
          /\ pc' = "error"
          /\ err' = "FileNotFoundError"
  /\ UNCHANGED << parser, fed, result, filename, disk, html, channel_a, channel_p,
                  file_gsf_a, file_gsf_p, file_html, data_gsf_p, parameters,
                  format_info, px, data_complete, format_metas, y, NotGSF >>

\* data_gsf_p = self._gsf_reader(file_gsf_p)
GSFReadP ==
  /\ pc = "gsf_read_p"
  /\ IF file_gsf_p \in Filenames
     THEN /\ data_gsf_p' = Raster(file_gsf_p, disk)
          /\ pc' = "gsf_html"
          /\ err' = err
     ELSE /\ data_gsf_p' = data_gsf_p
          /\ pc' = "error"
          /\ err' = "FileNotFoundError"
  /\ UNCHANGED << parser, fed, result, filename, disk, html, channel_a, channel_p,
                  file_gsf_a, file_gsf_p, file_html, data_gsf_a, parameters,
                  format_info, px, data_complete, format_metas, y, NotGSF >>

\* info = self._html_reader(file_html): p = HTMLTableParser(), open(path)
GSFHtmlOpen ==
  /\ pc = "gsf_html"
  /\ IF file_html # ReportName
     THEN /\ pc' = "error"
          /\ err' = "FileNotFoundError"
          /\ parser' = parser
     ELSE /\ parser' = NewParser
          /\ pc' = "gsf_feed"
          /\ err' = err
  /\ fed' = 0
  /\ UNCHANGED << result, filename, disk, html, channel_a, channel_p,
                  file_gsf_a, file_gsf_p, file_html, data_gsf_a, data_gsf_p,
                  parameters, format_info, px, data_complete, format_metas, y,
                  NotGSF >>

\* p.feed(f.read()): the next tag or text of the report reaches its handler
GSFFeed ==
  /\ pc = "gsf_feed"
  /\ fed < Len(html)
  /\ parser' = HandleEvent(parser, html[fed + 1])
  /\ fed' = fed + 1
  /\ UNCHANGED << pc, err, result, filename, disk, html, channel_a, channel_p,
                  file_gsf_a, file_gsf_p, file_html, data_gsf_a, data_gsf_p,
                  parameters, format_info, px, data_complete, format_metas, y,
                  NotGSF >>

\* return p.tables[0]
GSFHtmlReturn ==
  /\ pc = "gsf_feed"
  /\ fed = Len(html)
  /\ IF Len(parser.tables) = 0
     THEN /\ pc' = "error"
          /\ err' = "IndexError"
          /\ parameters' = parameters
     ELSE /\ parameters' = parser.tables[1]
          /\ pc' = "gsf_info"
          /\ err' = err
  /\ UNCHANGED << result, filename, disk, html, channel_a, channel_p,
                  file_gsf_a, file_gsf_p, file_html, data_gsf_a, data_gsf_p,
                  parser, fed, format_info, px, data_complete, format_metas, y,
                  NotGSF >>

\* ------------------------------------------------- NeaReaderGSF._format_file

\* a key with one trailing colon taken off
KeyWithoutLastColon(cell) ==
  IF Len(cell) > 0 /\ cell[Len(cell)] = ":"
  THEN SubSeq(cell, 1, Len(cell) - 1) ELSE cell

\* key = row[0].strip(":")
KeyOf(cell) == StripChars(cell, { ":" })

\* [v for v in cells if len(v)], for the cells from position n on
RECURSIVE NonEmpty(_, _)
NonEmpty(cells, n) ==
  IF n > Len(cells) THEN << >>
  ELSE (IF Len(cells[n]) > 0 THEN << cells[n] >> ELSE << >>)
         \o NonEmpty(cells, n + 1)

\* a dictionary value: a str (scalar, the one cell) or a list of str
Scalar(cell) == [ scalar |-> TRUE, cells |-> << cell >> ]

List(cells) == [ scalar |-> FALSE, cells |-> cells ]

\* value = [v for v in row[1:] if len(v)]; a list of one becomes its element
ValueOf(row) ==
  LET value == NonEmpty(row, 2)
  IN  IF Len(value) = 1 THEN Scalar(value[1]) ELSE List(value)

\* info after "for row in parameters: info.update({key: value})"
InfoOf(rows) ==
  LET keys == { KeyOf(rows[n][1]) : n \in 1..Len(rows) }
      last(key) == SetMax({ n \in 1..Len(rows) : KeyOf(rows[n][1]) = key })
  IN  [ key \in keys |-> ValueOf(rows[last(key)]) ]

\* an update that keeps the value of a key the dictionary already holds
SetDefaultReader(d) ==
  [ key \in (DOMAIN d) \cup { K_Reader } |->
      IF key \in DOMAIN d THEN d[key] ELSE Scalar(V_NeaReaderGSF) ]

\* info.update({"Reader": "NeaReaderGSF"})
UpdateReader(d) ==
  [ key \in (DOMAIN d) \cup { K_Reader } |->
      IF key = K_Reader THEN Scalar(V_NeaReaderGSF) ELSE d[key] ]

\* v[n] exists, for a str or a list v and n from 0
HasItem(v, n) ==
  IF v.scalar THEN n < Len(v.cells[1]) ELSE n < Len(v.cells)

\* v[n]: a character of a str, an element of a list
Item(v, n) == IF v.scalar THEN << v.cells[1][n + 1] >> ELSE v.cells[n + 1]

\* the exception of lines 269-283 for the table rows, "" when none is raised
InfoError(rows) ==
  IF \E n \in 1..Len(rows) : Len(rows[n]) = 0
  THEN "IndexError"                                     \* row[0]
  ELSE LET d == UpdateReader(InfoOf(rows))
       IN  IF K_Averaging \notin DOMAIN d THEN "KeyError"
           ELSE IF ~d[K_Averaging].scalar THEN "TypeError"  \* int(list)
           ELSE IF ~IntOk(d[K_Averaging].cells[1]) THEN "ValueError"
           ELSE IF K_Area \notin DOMAIN d THEN "KeyError"
           ELSE IF \E n \in 1..3 : ~HasItem(d[K_Area], n) THEN "IndexError"
           ELSE IF \E n \in 1..3 : ~IntOk(Item(d[K_Area], n)) THEN "ValueError"
           ELSE ""

\* lines 268-283: the dictionary of the report and the image geometry
GSFInfo ==
  /\ pc = "gsf_info"
  /\ IF InfoError(parameters) # ""
     THEN /\ pc' = "error"
          /\ err' = InfoError(parameters)
          /\ UNCHANGED << format_info, px >>
     ELSE /\ format_info' = UpdateReader(InfoOf(parameters))
          /\ px' = [ averaging |-> IntOf(format_info'[K_Averaging].cells[1]),
                     px_x |-> IntOf(Item(format_info'[K_Area], 1)),
                     px_y |-> IntOf(Item(format_info'[K_Area], 2)),
                     px_z |-> IntOf(Item(format_info'[K_Area], 3)) ]
          /\ pc' = "gsf_rows"
          /\ err' = err
  /\ y' = 0
  /\ UNCHANGED << parser, fed, result, filename, disk, html, channel_a, channel_p,
                  file_gsf_a, file_gsf_p, file_html, data_gsf_a, data_gsf_p,
                  parameters, data_complete, format_metas, NotGSF >>

\* a slice numbering that runs over the runs first
StepOfRunMajor(x, run, geo) == run * geo.px_x + x

\* the number of (x, run) steps of an image row done before step (x, run):
\* i advances by px_z at every step of "for x: for run:"
StepOf(x, run, geo) == x * geo.averaging + run

\* amplitude[i:f] at step (x, run) of a raster row
SliceOf(samples, x, run, geo) ==
  SubSeq(samples, StepOf(x, run, geo) * geo.px_z + 1,
                  (StepOf(x, run, geo) + 1) * geo.px_z)

\* rows emitted for one image row without the phase
RowsPerImageRowAmplitudeOnly(geo) == geo.px_x * geo.averaging

\* the number of rows one image row adds to data_complete
RowsPerImageRow(geo) == 2 * geo.px_x * geo.averaging

\* one iteration of "for y in range(0, px_y)": lines 288-299
GSFRow ==
  /\ pc = "gsf_rows"
  /\ y < px.px_y
  /\ LET n == px.px_x * px.px_z * px.averaging
         fail(kind) == /\ pc' = "error"
                       /\ err' = kind
                       /\ UNCHANGED << data_complete, format_metas, y >>
     IN  IF y + 1 > Len(data_gsf_a) THEN fail("IndexError")       \* gsf_a[y]
         ELSE IF Len(data_gsf_a[y + 1]) # n THEN fail("ValueError") \* reshape
         ELSE IF y + 1 > Len(data_gsf_p) THEN fail("IndexError")
         ELSE IF Len(data_gsf_p[y + 1]) # n THEN fail("ValueError")
         ELSE LET amplitude == data_gsf_a[y + 1]
                  phase == data_gsf_p[y + 1]
                  x_of(k) == ((k - 1) \div 2) \div px.averaging
                  run_of(k) == ((k - 1) \div 2) % px.averaging
              IN  /\ data_complete' = data_complete \o
                       [ k \in 1..RowsPerImageRow(px) |->
                           SliceOf(IF k % 2 = 1 THEN amplitude ELSE phase,
                                   x_of(k), run_of(k), px) ]
                  /\ format_metas' = format_metas \o
                       [ k \in 1..RowsPerImageRow(px) |->
                           << x_of(k), y, run_of(k),
                              IF k % 2 = 1 THEN channel_a ELSE channel_p >> ]
                  /\ y' = y + 1
                  /\ pc' = pc
                  /\ err' = err
  /\ UNCHANGED << parser, fed, result, filename, disk, html, channel_a, channel_p,
                  file_gsf_a, file_gsf_p, file_html, data_gsf_a, data_gsf_p,
                  parameters, format_info, px, NotGSF >>

\* lines 301 and 246-264: the tables, the attributes, the depth axis
GSFReturn ==
  /\ pc = "gsf_rows"
  /\ y = px.px_y
  /\ result' = [ X |-> [ c \in 1..IntOf(Item(format_info[K_Area], 3)) |-> c - 1 ],
                 data |-> data_complete,
                 metas |-> format_metas,
                 attributes |-> format_info ]
  /\ pc' = "done"
  /\ UNCHANGED << err, gsfvars, NotGSF >>

InitGSF ==
  /\ pc = "gsf_names"
  /\ err = ""
  /\ result = None
  /\ FirstCall
  /\ NoWidget
  /\ text = << >>
  /\ IdleDetect
  /\ file = << >>
  /\ IdleV1
  /\ NoV2Input
  /\ NoMCInput
  /\ filename \in Filenames
  /\ disk \in [ rows : 1..MaxImageRows, width : RowLengths ]
  /\ \/ \E rows \in ReportTables : html = ReportOf(rows)
     \/ html \in TablelessReports
  /\ IdleGSF

NextGSF ==
  \/ GSFNames \/ GSFReadA \/ GSFReadP \/ GSFHtmlOpen \/ GSFFeed
  \/ GSFHtmlReturn \/ GSFInfo \/ GSFRow \/ GSFReturn

SpecGSF == InitGSF /\ [][NextGSF]_vars

\* ================================================== the four parsers together

InitAll == InitV1 \/ InitModern \/ InitGSF

NextAll == NextV1 \/ NextModern \/ NextGSF

SpecAll == InitAll /\ [][NextAll]_vars

\* a multichannel file is being read
MCInput == table_data_headers # << >>

\* a raster file is being read by NeaReaderGSF
GSFInput == filename # << >>

\* the "#" lines of the multichannel file, the first one aside, hold no
\* line with the key
MCLacks(key) == \A n \in 2..Len(header) : header[n].k # key

\* the report was read to its end
ReportRead == parser # << >> /\ fed = Len(html)

\* the report holds a table
ReportHasTable == Len(parser.tables) > 0

\* the first table of the report holds no row labelled with the key
ReportLacks(key) ==
  LET rows == parser.tables[1]
  IN  \A n \in 1..Len(rows) : Len(rows[n]) > 0 => KeyOf(rows[n][1]) # key

\* the call ended with an exception and returned nothing
Failed == pc = "error" /\ err # "" /\ result = None

\* C14: a reader whose required element is absent ends with an error and
\* returns nothing: read_v2 without a "Wavenumber" header cell, the
\* multichannel reader and NeaReaderGSF without the key Averaging or
\* Pixel Area (X, Y, Z) in the metadata, NeaReaderGSF without a table in
\* the report.
C14_RequiredElementsFailFast ==
  Terminated =>
     /\ (V2Input /\ ~HasWavenumber) => Failed
     /\ (MCInput /\ (MCLacks(AveragingKey) \/ MCLacks(AreaKey))) => Failed
     /\ (GSFInput /\ ReportRead /\ ~ReportHasTable) => Failed
     /\ (GSFInput /\ ReportRead /\ ReportHasTable
           /\ (ReportLacks(K_Averaging) \/ ReportLacks(K_Area))) => Failed

\* ------------------------------------------------- NeaReaderGSF: properties

\* the cells of the last row of the report table labelled with the key
ReportRow(key) ==
  parameters[CHOOSE n \in 1..Len(parameters) :
               /\ Len(parameters[n]) > 0
               /\ KeyOf(parameters[n][1]) = key
               /\ \A k \in (n + 1)..Len(parameters) :
                     Len(parameters[k]) > 0 => KeyOf(parameters[k][1]) # key]

\* the image geometry the report states
GSF_px_x == NumberIn(ReportRow(K_Area)[3])

GSF_px_y == NumberIn(ReportRow(K_Area)[4])

GSF_px_z == NumberIn(ReportRow(K_Area)[5])

GSF_averaging == NumberIn(ReportRow(K_Averaging)[2])

\* C15: whenever NeaReaderGSF returns a table, the number of data rows and
\* the number of metadata rows are 2 * px_x * px_y * averaging, the numbers
\* being those of the report keys Pixel Area (X, Y, Z) and Averaging.
C15_BinaryRowCount ==
  (GSFInput /\ TableReturned) =>
     /\ Len(result.data) = 2 * GSF_px_x * GSF_px_y * GSF_averaging
     /\ Len(result.metas) = 2 * GSF_px_x * GSF_px_y * GSF_averaging

\* C15 witness: a 2 x 2 image with two runs was returned as 16 rows.
C15_Witness ==
  /\ GSFInput
  /\ TableReturned
  /\ GSF_px_x = 2 /\ GSF_px_y = 2 /\ GSF_averaging = 2
  /\ Len(result.data) = 16

\* the keys parsed from the rows of the report table
ParsedKeys == { KeyOf(parameters[n][1]) : n \in 1..Len(parameters) }

\* the value parsed for a key: that of the last row labelled with it
ParsedValue(key) == ValueOf(ReportRow(key))

\* C16 as claimed: the attributes of the returned table hold every parsed
\* key with its parsed value, and the one additional key "Reader", so one
\* key more than the report has, also when a report row is labelled
\* "Reader".
C16_ReaderKeyAlwaysAdditional ==
  (GSFInput /\ TableReturned) =>
     /\ \A key \in ParsedKeys :
           /\ key \in DOMAIN result.attributes
           /\ result.attributes[key] = ParsedValue(key)
     /\ K_Reader \in DOMAIN result.attributes
     /\ Cardinality(DOMAIN result.attributes) = Cardinality(ParsedKeys) + 1

\* C16 amended: the attributes hold every parsed key other than "Reader"
\* with its parsed value, and the key "Reader" with the value
\* "NeaReaderGSF"; they hold no other key.  So they have one key more than
\* the report when no report row is labelled "Reader", and as many keys as
\* the report, the value of its "Reader" row being replaced, when one is.
C16_MetadataPassthrough ==
  (GSFInput /\ TableReturned) =>
     /\ DOMAIN result.attributes = ParsedKeys \cup { K_Reader }
     /\ \A key \in ParsedKeys \ { K_Reader } :
           result.attributes[key] = ParsedValue(key)
     /\ result.attributes[K_Reader] = Scalar(V_NeaReaderGSF)
     /\ Cardinality(DOMAIN result.attributes) =
           IF K_Reader \in ParsedKeys THEN Cardinality(ParsedKeys)
           ELSE Cardinality(ParsedKeys) + 1

\* C16 witness: a table was returned for a report with a row labelled
\* "Reader", whose value was replaced.
C16_Witness ==
  /\ GSFInput
  /\ TableReturned
  /\ K_Reader \in ParsedKeys
  /\ ParsedValue(K_Reader) = Scalar(<< "x" >>)
  /\ result.attributes[K_Reader] = Scalar(V_NeaReaderGSF)
  /\ Cardinality(DOMAIN result.attributes) = 3

\* _format_file has built the dictionary of the report
InfoBuilt == GSFInput /\ pc \in { "gsf_rows", "done" }

\* a cell without the colons it begins and ends with
ColonFree(cell) ==
  LET inner == { n \in 1..Len(cell) : cell[n] # ":" }
  IN  IF inner = {} THEN << >>
      ELSE [ n \in 1..(SetMax(inner) - SetMin(inner) + 1) |->
               cell[SetMin(inner) + n - 1] ]

\* the positions of the non-empty cells after the first cell of a row
ValueCells(row) == { k \in 2..Len(row) : Len(row[k]) > 0 }

\* the n-th of them, in the order of the row
NthValueCell(row, n) ==
  CHOOSE k \in ValueCells(row) :
    Cardinality({ m \in ValueCells(row) : m < k }) = n - 1

\* value v is the non-empty cells after the first cell of the row: the cell
\* itself when there is one, the list of them in order otherwise
IsValueOfRow(v, row) ==
  IF Cardinality(ValueCells(row)) = 1
  THEN v.scalar /\ v.cells[1] = row[NthValueCell(row, 1)]
  ELSE /\ ~v.scalar
       /\ Len(v.cells) = Cardinality(ValueCells(row))
       /\ \A n \in 1..Len(v.cells) : v.cells[n] = row[NthValueCell(row, n)]

\* C17 as claimed: each row of the report table is stored under its first
\* cell with only the trailing colon removed, the value being the remaining
\* non-empty cells (the cell when one, else their list in order).
C17_KeyLosesTrailingColon ==
  InfoBuilt =>
     \A n \in 1..Len(parameters) :
        LET key == KeyWithoutLastColon(parameters[n][1])
        IN  /\ key \in DOMAIN format_info
            /\ (/\ key # K_Reader
                /\ \A k \in (n + 1)..Len(parameters) :
                      KeyWithoutLastColon(parameters[k][1]) # key)
                 => IsValueOfRow(format_info[key], parameters[n])

\* C17 amended: each row of the report table is stored under its first
\* cell with every leading and every trailing colon removed; the value is
\* the remaining non-empty cells of the row (the cell itself when exactly
\* one remains, else their list in order), for the last row of a key and
\* for a key other than "Reader".
C17_KeyLosesOuterColons ==
  InfoBuilt =>
     \A n \in 1..Len(parameters) :
        LET key == ColonFree(parameters[n][1])
        IN  /\ key \in DOMAIN format_info
            /\ (/\ key # K_Reader
                /\ \A k \in (n + 1)..Len(parameters) :
                      ColonFree(parameters[k][1]) # key)
                 => IsValueOfRow(format_info[key], parameters[n])

\* C17 witness: the row "::Scan:::" with the cells "F", a blank and "S" is
\* stored under "Scan" as the list of "F" and "S".
C17_Witness ==
  /\ InfoBuilt
  /\ \E n \in 1..Len(parameters) :
        parameters[n] = << Colon \o K_Scan \o Colon \o Colon, << "F" >>, << >>, << "S" >> >>
  /\ K_Scan \in DOMAIN format_info
  /\ format_info[K_Scan] = List(<< << "F" >>, << "S" >> >>)

\* the px_z samples of row yy of a raster from offset (x * averaging + run)
\* * px_z on
RasterSlice(raster, yy, x, run) ==
  [ o \in 1..GSF_px_z |->
      raster[yy + 1][(x * GSF_averaging + run) * GSF_px_z + o] ]

\* C18: for every image row y, column x and run, in the order y, then x,
\* then run, NeaReaderGSF emits the amplitude row and right after it the
\* phase row: the px_z consecutive samples of row y of the amplitude and of
\* the phase raster from offset (x * averaging + run) * px_z on, with the
\* metadata (column x, row y, run, channel label).
C18_SlicesInterleaved ==
  (GSFInput /\ TableReturned) =>
     \A yy \in 0..(GSF_px_y - 1), x \in 0..(GSF_px_x - 1),
        run \in 0..(GSF_averaging - 1) :
        LET g == (yy * GSF_px_x + x) * GSF_averaging + run
        IN  /\ result.data[2 * g + 1] = RasterSlice(data_gsf_a, yy, x, run)
            /\ result.data[2 * g + 2] = RasterSlice(data_gsf_p, yy, x, run)
            /\ result.metas[2 * g + 1] = << x, yy, run, channel_a >>
            /\ result.metas[2 * g + 2] = << x, yy, run, channel_p >>

\* C18 witness: a 2 x 2 image of depth 2 with two runs; the rows of
\* (y 0, x 1, run 0) are rows 5 and 6 and hold samples 4 and 5 of raster
\* row 0 of the amplitude and of the phase file.
C18_Witness ==
  /\ GSFInput
  /\ TableReturned
  /\ GSF_px_x = 2 /\ GSF_px_y = 2 /\ GSF_px_z = 2 /\ GSF_averaging = 2
  /\ filename = File_O2A
  /\ result.data[5] = << Sample(File_O2A, 0, 4), Sample(File_O2A, 0, 5) >>
  /\ result.data[6] = << Sample(File_O2P, 0, 4), Sample(File_O2P, 0, 5) >>
  /\ result.metas[5] = << 1, 0, 0, << "O", "2", "A" >> >>
  /\ result.metas[6] = << 1, 0, 0, << "O", "2", "P" >> >>

\* the position of the last space of a file name
LastSpace(name) == SetMax({ n \in 1..Len(name) : name[n] = " " })

\* the file name has a channel token: a word before its last word
HasChannelToken(name) ==
  Cardinality({ n \in 1..Len(name) : name[n] = " " }) >= 2

\* the channel token of a file name: the word before its last word
ChannelToken(name) ==
  LET before == { n \in 1..(LastSpace(name) - 1) : name[n] = " " }
  IN  SubSeq(name, SetMax(before) + 1, LastSpace(name) - 1)

\* a and p are the same text but for position k, where a has "A", p has "P"
DifferOnlyAt(a, p, k) ==
  /\ Len(a) = Len(p)
  /\ k \in 1..Len(a)
  /\ a[k] = "A" /\ p[k] = "P"
  /\ \A n \in 1..Len(a) : n # k => a[n] = p[n]

\* C19: from the given file name read_spectra derives an amplitude and a
\* phase file name, and two channel labels, that differ only in the
\* trailing A/P marker of the channel token, one name being the given
\* file, and one report file name; a channel token with neither "A" nor
\* "P" raises ValueError before any file is read.
C19_CompanionNames ==
  (GSFInput /\ pc # "gsf_names" /\ HasChannelToken(filename)) =>
     IF Contains(ChannelToken(filename), "A")
          \/ Contains(ChannelToken(filename), "P")
     THEN /\ DifferOnlyAt(file_gsf_a, file_gsf_p, LastSpace(filename) - 1)
          /\ DifferOnlyAt(channel_a, channel_p, Len(channel_a))
          /\ filename \in { file_gsf_a, file_gsf_p }
          /\ file_html # None
     ELSE /\ pc = "error"
          /\ err = "ValueError"
          /\ data_gsf_a = << >>
          /\ data_gsf_p = << >>
          /\ parser = << >>

\* ------------------------------------------------ the shape of every result

\* a legacy file is being read by read_v1
V1Input == file # << >>

ChannelsSelected ==
  MCInput /\ pc \in { "mc_shape", "mc_fill" }

\* the name is the letter O, one digit 1-9, then A or P, and nothing more
IsChannelName(dh) ==
  /\ Len(dh) = 3
  /\ dh[1] = "O"
  /\ dh[2] \in { "1", "2", "3", "4", "5", "6", "7", "8", "9" }
  /\ dh[3] \in { "A", "P" }

\* C21: the selected channel columns are exactly the table columns whose
\* name is O, one digit 1-9, then A or P, and no other column.
C21_ExactlyNamedChannels ==
  ChannelsSelected =>
    { valid_channel_cols[n] : n \in 1..Len(valid_channel_cols) }
      = { c \in 0..(Len(table_data_headers) - 1) :
            IsChannelName(table_data_headers[c + 1]) }

\* ------------------------------------------ multichannel: the order of the rows

MCDepth == NumberIn(HeaderValue(AreaKey)[4])

\* the (row, column, run) steps of the loops
MCSteps == MCRows * MCColumns * MCRuns

\* the table has all the lines of the block of step s
BlockInTable(s) == Len(input_data) >= MCDepth * (s + 1)

\* the cells of the c-th (from 0) channel column in the block of step s
BlockOfChannel(s, c) ==
  [ k \in 1..MCDepth |->
      input_data[MCDepth * s + k][valid_channel_cols[c + 1] + 1] ]

\* the first cell of that block, once per sample
FirstOfChannel(s, c) ==
  [ k \in 1..MCDepth |->
      input_data[MCDepth * s + 1][valid_channel_cols[c + 1] + 1] ]

\* the cell of the named column in the first line of the block of step s
FirstLineValue(s, name) ==
  input_data[MCDepth * s + 1]
            [(CHOOSE n \in 1..Len(table_data_headers) :
                /\ table_data_headers[n] = name
                /\ \A k \in 1..(n - 1) : table_data_headers[k] # name)]

\* the metadata of the output rows of step s are those of its first line
MetaOfFirstLine(s, c, metas) ==
  LET r == s * Len(valid_channel_cols) + c
  IN  /\ metas[r][1] = FirstLineValue(s, N_Column)
      /\ metas[r][2] = FirstLineValue(s, N_Row)
      /\ metas[r][3] = FirstLineValue(s, N_Run)

\* while the loops run, the output rows of the finished steps are written
\* and the others are still as created
FilledInOrder ==
  (MCInput /\ pc = "mc_fill") =>
     \A r \in DOMAIN out_meta :
        (out_meta[r] # << >>) <=> (r < loop_step * Len(valid_channel_cols))

\* C22 as claimed: with s = (row x cols + column) x runs + run, output row
\* s x channels + c holds the depth consecutive input lines starting at line
\* depth x s of the c-th channel column, every output row is written once,
\* and its metadata are the Column, Row and Run of the block's first line.
C22_RowsHoldBlocks ==
  /\ FilledInOrder
  /\ (TableReturned /\ MCInput) =>
       /\ Len(result.data) = MCSteps * Len(valid_channel_cols)
       /\ \A s \in 0..(MCSteps - 1) : \A c \in 0..(Len(valid_channel_cols) - 1) :
            /\ BlockInTable(s)
            /\ result.data[s * Len(valid_channel_cols) + c + 1] = BlockOfChannel(s, c)
            /\ MetaOfFirstLine(s, c, out_meta)

\* C22 amended: output row s x channels + c holds the depth input lines
\* starting at line depth x s of the c-th channel column when the table has
\* them all, and depth copies of the line depth x s when the table ends with
\* that line; every output row is written once, in this order, and its
\* metadata are the Column, Row and Run of the block's first line.
C22_RowsHoldBlocksOrCopies ==
  /\ FilledInOrder
  /\ (TableReturned /\ MCInput) =>
       /\ Len(result.data) = MCSteps * Len(valid_channel_cols)
       /\ \A s \in 0..(MCSteps - 1) : \A c \in 0..(Len(valid_channel_cols) - 1) :
            /\ result.data[s * Len(valid_channel_cols) + c + 1] =
                 IF BlockInTable(s) THEN BlockOfChannel(s, c)
                 ELSE FirstOfChannel(s, c)
            /\ ~BlockInTable(s) => Len(input_data) = MCDepth * s + 1
            /\ MetaOfFirstLine(s, c, out_meta)

\* C22 witness: a complete table of two blocks of two lines was returned as
\* four rows, two channels for each block.
C22_Witness ==
  /\ TableReturned
  /\ MCInput
  /\ MCSteps = 2
  /\ MCDepth = 2
  /\ Len(valid_channel_cols) = 2
  /\ BlockInTable(1)
  /\ result.data[4] = BlockOfChannel(1, 1)

\* ------------------------------------------------ read_v1: the slots of a run

\* the consumed record k sits in the slot of its pixel, channel and run, or
\* a later consumed record of the same pixel, channel type, harmonic and run
\* has replaced it there
StoredInItsSlot(k) ==
  LET rec  == file[k]
      key  == << rec.row, rec.column >>
      kind == channel_type(rec.channel)
  IN  /\ key \in DOMAIN di
      /\ rec.run \in DOMAIN di[key].M
      /\ LET slot == IF kind = "M" THEN di[key].M[rec.run]
                     ELSE di[key][kind][IntOf(Middle(rec.channel))][rec.run]
         IN  /\ slot # NaN
             /\ slot >= k
             /\ file[slot].run = rec.run
             /\ << file[slot].row, file[slot].column >> = key

\* every filled slot of run index r holds a record of run r of its pixel
SlotsHoldTheirRun ==
  \A p \in DOMAIN di : \A r \in DOMAIN di[p].M :
    /\ di[p].M[r] # NaN => file[di[p].M[r]].run = r
    /\ \A kind \in { "OA", "OP" } : \A h \in DOMAIN di[p][kind] :
         di[p][kind][h][r] # NaN => file[di[p][kind][h][r]].run = r

\* one slot per distinct run value of the file
OneSlotPerRun ==
  \A p \in DOMAIN di :
     Cardinality(DOMAIN di[p].M) = Cardinality(RunSet(file))

\* C24 as claimed: every pixel's reference accumulator has one slot per
\* distinct run value, and for any set of non-negative run values every
\* record is stored in a slot that exists and belongs to its run only: the
\* store never fails on an out-of-range index.
C24_EveryRunHasItsSlot ==
  V1Input =>
    /\ OneSlotPerRun
    /\ SlotsHoldTheirRun
    /\ err # "IndexError"
    /\ \A k \in 1..i : StoredInItsSlot(k)

\* C24 amended: every pixel's reference accumulator has one slot per
\* distinct run value, a record with run value r is stored in slot r, which
\* holds records of run r only, and the store fails with IndexError exactly
\* at the first record whose run value is not below the number of distinct
\* run values: it never fails when the run values are 0, 1, ..., n - 1.
C24_RunValueIsSlotIndex ==
  V1Input =>
    /\ OneSlotPerRun
    /\ SlotsHoldTheirRun
    /\ \A k \in 1..i : StoredInItsSlot(k)
    /\ err = "IndexError" =>
         /\ i < Len(file)
         /\ file[i + 1].run >= Cardinality(RunSet(file))
    /\ (pc # "v1_load" /\ Len(file) > 1 /\ err # "IndexError") =>
         \A k \in 1..i : file[k].run < Cardinality(RunSet(file))
    /\ RunSet(file) = 0..(Cardinality(RunSet(file)) - 1) => err # "IndexError"

\* C24 witness: every record of a file with the run values 0 and 1 was
\* consumed and a pixel has a reference vector in each of its two slots.
C24_Witness ==
  /\ V1Input
  /\ AllConsumed
  /\ RunSet(file) = {0, 1}
  /\ \E p \in DOMAIN di : di[p].M[0] # NaN /\ di[p].M[1] # NaN

\* ------------------------------------- read_v1: data rows and their metadata

\* the harmonic and channel type a metadata label names
LabelNames(label, h, kind) ==
  \/ kind = "OA" /\ label = HarmonicLabel(h, "A")
  \/ kind = "OP" /\ label = HarmonicLabel(h, "P")

\* the value of row n is the mean, over every run, of the records of the
\* pixel, harmonic and channel type that the metadata row n names, each
\* resampled from the reference record of the same pixel and run
IsMeanOfLabelled(n) ==
  LET meta == result.metas[n]
      row  == result.data[n]
      val  == row.value
  IN  /\ row.pixel = << meta[1], meta[2] >>
      /\ LabelNames(meta[3], row.harmonic, row.kind)
      /\ val = MeanRow(di[row.pixel], row.kind, row.harmonic)
      /\ ~val.missing =>
           /\ DOMAIN val.of = 0..(Cardinality(RunSet(file)) - 1)
           /\ \A r \in DOMAIN val.of :
                LET ref == file[val.of[r][1]]
                    rec == file[val.of[r][2]]
                IN  /\ channel_type(ref.channel) = "M"
                    /\ << ref.row, ref.column >> = row.pixel
                    /\ ref.run = r
                    /\ channel_type(rec.channel) = row.kind
                    /\ IntOf(Middle(rec.channel)) = row.harmonic
                    /\ << rec.row, rec.column >> = row.pixel
                    /\ rec.run = r

\* C25: in the read_v1 result the i-th metadata row describes the i-th data
\* row: the row labelled (row, column, "O<h>A") is the run average of that
\* pixel's interpolated amplitude of harmonic h, the row labelled "O<h>P"
\* that of its phase.
C25_MetadataDescribesData ==
  (V1Input /\ pc = "done") =>
    /\ Len(result.metas) = Len(result.data)
    /\ \A n \in 1..Len(result.data) : IsMeanOfLabelled(n)

\* C25 witness: a table with two harmonics was returned whose row labelled
\* "O1P" is the mean of a phase record of harmonic 1.
C25_Witness ==
  /\ V1Input
  /\ pc = "done"
  /\ numharmonics = 2
  /\ \E n \in 1..Len(result.data) :
       /\ result.metas[n][3] = HarmonicLabel(1, "P")
       /\ ~result.data[n].value.missing

\* ------------------------------------------- read_v2: metadata of the blocks

\* the first line (from 1) of the block that output row n (from 1) was
\* copied from: block (n - 1) div channels, Max_omega lines per block
V2BlockStartOfRow(n) == ((n - 1) \div Len(Channel)) * Max_omega + 1

\* C26: in the read_v2 result the (row, column) metadata of every output row
\* are the row-index and column-index values (columns 0 and 1) of the file
\* block its data was taken from, whatever the order of the blocks.
C26_MetadataFromBlock ==
  (TableReturned /\ V2Input) =>
    \A n \in 1..Len(result.metas) :
      /\ result.metas[n][1] = matrix[V2BlockStartOfRow(n)][1]
      /\ result.metas[n][2] = matrix[V2BlockStartOfRow(n)][2]

\* ----------------------------------------- multichannel: a file without "#"

\* C27: when the file has no line starting with "#", the multichannel read
\* ends by raising an error; it never returns a value to the caller.
C27_NoHeaderRaises ==
  (MCInput /\ Len(header) = 0 /\ pc # "mc_open") =>
     /\ pc = "error"
     /\ err # ""
     /\ result = None

\* ------------------------------------------- _html_reader on any event sequence

\* Longest report, in tags and texts, fed to the table parser on its own.
MaxEvents == 5

\* The tags and texts such a report is made of.
EventAlphabet ==
  { StartTag("td"), StartTag("tr"), StartTag("table"),
    EndTag("td"), EndTag("tr"), EndTag("table"),
    Data(<< " ", "x" >>) }

\* _html_reader(path) called on a report of any events
InitHtml ==
  /\ pc = "gsf_html"
  /\ err = ""
  /\ result = None
  /\ FirstCall
  /\ NoWidget
  /\ text = << >>
  /\ IdleDetect
  /\ file = << >>
  /\ IdleV1
  /\ NoV2Input
  /\ NoMCInput
  /\ filename = << >>
  /\ disk = << >>
  /\ \E n \in 1..MaxEvents : html \in [ 1..n -> EventAlphabet ]
  /\ channel_a = None
  /\ channel_p = None
  /\ file_gsf_a = None
  /\ file_gsf_p = None
  /\ file_html = ReportName
  /\ data_gsf_a = << >>
  /\ data_gsf_p = << >>
  /\ parser = << >>
  /\ fed = 0
  /\ parameters = << >>
  /\ format_info = << >>
  /\ px = << >>
  /\ data_complete = << >>
  /\ format_metas = << >>
  /\ y = 0

NextHtml == GSFHtmlOpen \/ GSFFeed \/ GSFHtmlReturn

SpecHtml == InitHtml /\ [][NextHtml]_vars

\* the k-th smallest member of a set of numbers
NthOf(S, k) == CHOOSE x \in S : Cardinality({ z \in S : z < x }) = k - 1

\* the positions, among the first n events, of the end tags named tag
EndsUpTo(n, tag) == { k \in 1..n : html[k] = EndTag(tag) }

\* the last of them, 0 when there is none
LastEnd(n, tag) ==
  IF EndsUpTo(n, tag) = {} THEN 0 ELSE SetMax(EndsUpTo(n, tag))

\* after n events a <td> is open: the last td tag is a start tag
InCellAfter(n) ==
  \E k \in 1..n :
    /\ html[k] = StartTag("td")
    /\ \A m \in (k + 1)..n : html[m] # EndTag("td")

\* the texts among the events a+1..b that arrive inside an open <td>
TextsIn(a, b) ==
  LET at == { k \in (a + 1)..b : html[k].kind = "data" /\ InCellAfter(k - 1) }
  IN  [ n \in 1..Cardinality(at) |-> strip(html[NthOf(at, n)].data) ]

\* the current row after n events: the cell texts since the last </tr>
RowAfter(n) == TextsIn(LastEnd(n, "tr"), n)

\* the row that the </tr> at position k closes
RowClosedAt(k) == RowAfter(k - 1)

\* the rows closed by the </tr> among the events a+1..b
RowsClosedIn(a, b) ==
  LET at == { k \in (a + 1)..b : html[k] = EndTag("tr") }
  IN  [ n \in 1..Cardinality(at) |-> RowClosedAt(NthOf(at, n)) ]

\* the current table after n events: the rows closed since the last </table>
TableAfter(n) == RowsClosedIn(LastEnd(n, "table"), n)

\* the tables closed by the </table> among the first n events
TablesAfter(n) ==
  LET at == EndsUpTo(n, "table")
  IN  [ k \in 1..Cardinality(at) |-> TableAfter(NthOf(at, k) - 1) ]

\* the position of the first </table> of the report
FirstTableEnd == SetMin(EndsUpTo(Len(html), "table"))

\* C28: for any sequence of events, text is appended to the current row only
\* inside an open <td>; each </tr> moves the current row into the current
\* table, each </table> the current table into the list of tables; and
\* _html_reader returns the first table closed, whose rows are the rows
\* closed before the first </table>, whatever follows it.
C28_ParserFollowsEvents ==
  /\ pc = "gsf_feed" =>
       parser = [ _current_row |-> RowAfter(fed),
                  _current_table |-> TableAfter(fed),
                  _in_cell |-> InCellAfter(fed),
                  tables |-> TablesAfter(fed) ]
  /\ (pc = "gsf_info" /\ file_html = ReportName) =>
       /\ EndsUpTo(Len(html), "table") # {}
       /\ parameters = RowsClosedIn(0, FirstTableEnd - 1)
  /\ (pc = "error" /\ err = "IndexError" /\ parser # << >> /\ parameters = << >>) =>
       EndsUpTo(Len(html), "table") = {}

\* C28 witness: the reader returned the table holding the row ("x") of a
\* report that goes on after its first </table>.
C28_Witness ==
  /\ pc = "gsf_info"
  /\ filename = << >>
  /\ parameters = << << << "x" >> >> >>
  /\ FirstTableEnd < Len(html)
  /\ html[Len(html)] = EndTag("table")

\* ------------------------------------------- a second read with the same reader

\* self.channel_a and self.channel_p after a read of the named file with the
\* same reader object: the labels of lines 223-233, or what they were when
\* the read ended before assigning them
LabelsLeftBy(name) ==
  IF NameError(name) # "" THEN << channel_a, channel_p >>
  ELSE LET file_channel == FileChannel(name)
       IN  IF Contains(file_channel, "P")
           THEN << replace(file_channel, << "P" >>, << "A" >>), file_channel >>
           ELSE IF Contains(file_channel, "A")
           THEN << file_channel, replace(file_channel, << "A" >>, << "P" >> ) >>
           ELSE << channel_a, channel_p >>

\* where a read of the file at hand starts
FirstStep == IF V1Input THEN "v1_load" ELSE "gsf_names"

\* the read of read_v1 or of NeaReaderGSF has ended and the same reader
\* object reads the unchanged files again: every local is created anew, the
\* attributes of the object stay.
\* A NeaReaderGSF may have read another file in between, which leaves its
\* labels in channel_a and channel_p.
ReadAgain ==
  /\ calls = 1
  /\ Terminated
  /\ V1Input \/ GSFInput
  /\ calls' = 2
  /\ previous' = [ pc |-> pc, err |-> err, result |-> result ]
  /\ pc' = FirstStep
  /\ err' = ""
  /\ result' = None
  /\ runs' = {}
  /\ numharmonics' = 0
  /\ uniquerc' = {}
  /\ di' = << >>
  /\ i' = 0
  /\ min_intp' = None
  /\ max_intp' = None
  /\ X' = << >>
  /\ pending' = {}
  /\ final_data' = << >>
  /\ final_metas' = << >>
  /\ IF GSFInput
     THEN \E other \in Filenames :
            /\ channel_a' = LabelsLeftBy(other)[1]
            /\ channel_p' = LabelsLeftBy(other)[2]
     ELSE UNCHANGED << channel_a, channel_p >>
  /\ file_gsf_a' = None
  /\ file_gsf_p' = None
  /\ file_html' = None
  /\ data_gsf_a' = << >>
  /\ data_gsf_p' = << >>
  /\ parser' = << >>
  /\ fed' = 0
  /\ parameters' = << >>
  /\ format_info' = << >>
  /\ px' = << >>
  /\ data_complete' = << >>
  /\ format_metas' = << >>
  /\ y' = 0
  /\ UNCHANGED << file, detvars, v2vars, mcvars, filename, disk, html,
                  widgetvars >>

InitReread == InitV1 \/ InitGSF

NextReread == NextV1 \/ NextGSF \/ ReadAgain

SpecReread == InitReread /\ [][NextReread]_vars

\* C23: the result of a read depends only on the files read, not on an
\* earlier read made with the same reader object (nor on the channel_a and
\* channel_p it left): the second of two reads of unchanged files ends as
\* the first did, with an equal axis, data and metadata.
C23_SecondReadEqualsFirst ==
  (calls = 2 /\ Terminated) =>
     /\ pc = previous.pc
     /\ err = previous.err
     /\ pc = "done" => result = previous.result

\* C23 witness: a NeaReaderGSF returned a table of several rows from its
\* second read of an amplitude file.
C23_Witness ==
  /\ calls = 2
  /\ pc = "done"
  /\ filename = File_O2A
  /\ Len(result.data) >= 4
  /\ result.metas[1][4] = << "O", "2", "A" >>
  /\ previous.pc = "done"

\* ------------------------------------------------------------------------
\* widgets/owmanualtilt.py and widgets/owmanualbaseline.py: the slope control
\* of the Manual Tilt and the Manual Baseline Editor widgets.  The two files
\* hold the same SlopeControl and the same handlers but for onUpdateLims, the
\* step spin and the "<<<" / ">>>" buttons of the baseline editor.

\* clicks on the step buttons followed from the start of the widget
MaxPresses == 1

\* angles are kept in 1/10000 of a degree, the four decimals of the spins
Deg(n) == n * 10000

\* the two widget classes
Editors == { "OWManualTilt", "OWManualBaselineEditor" }

\* no file is being read: the widgets take tables, not files
NoReader ==
  /\ text = << >>
  /\ IdleDetect
  /\ file = << >>
  /\ IdleV1
  /\ NoModernInput

\* the tables given to the Data input: getx(data) and data.X, one or two
\* spectra of two points; the spectra of a table start at the same value
SlopeTables ==
  { [ x |-> << 0, 1 >>, X |-> << << 1, 2 >> >> ],
    [ x |-> << 0, 1 >>, X |-> << << 1, 1 >>, << 1, 2 >> >> ] }

\* values typed into the slope spin of the equation, or picked on the slider
SlopeInputs == { Deg(30) }

\* values typed into the min and max spins, whose range is -90 to 90
RangeInputs == { Deg(-30), Deg(90) }

\* values typed into the yref spin of the equation
YrefInputs == 1..2

\* values typed into the step spin of the baseline editor, 0 to 90
StepInputs == { Deg(5) }

\* partial(self.handleSlopeChangeButtons, n) and _buttonSlope1Up ... 10Down
Amounts(w) ==
  IF w = "OWManualTilt" THEN { -10, -1, 1, 10 }
  ELSE { -100, -10, -1, 1, 10, 100 }

\* SlopeControl.setDefault
setDefault ==
  [ val |-> 0, min |-> Deg(-90), max |-> Deg(90), step |-> Deg(1),
    xref |-> 0, yref |-> 0, x |-> None, y |-> None ]

\* np.degrees(np.arctan(dy / dx)), for the quotients -1, 0 and 1
slope_of(dx, dy) ==
  CASE dy = 0 -> 0
    [] dy = dx -> Deg(45)
    [] dy = - dx -> Deg(-45)

\* SlopeControl._calcSlopes: min, max and their mean over every spectrum and
\* every point but the first
calcSlopes(s) ==
  LET slopes == { slope_of(s.x[c] - s.xref, s.y[r][c] - s.yref) :
                    r \in 1..Len(s.y), c \in 2..Len(s.x) }
  IN  [ min |-> SetMin(slopes), max |-> SetMax(slopes),
        val |-> (SetMin(slopes) + SetMax(slopes)) \div 2 ]

\* np.mean(self.y[:,0])
MeanOfFirstColumn(rows) ==
  LET RECURSIVE Total(_)
      Total(n) == IF n = 0 THEN 0 ELSE Total(n - 1) + rows[n][1]
  IN  Total(Len(rows)) \div Len(rows)

\* SlopeControl.onReset
onReset(s) ==
  LET t == [ s EXCEPT !.xref = s.x[1], !.yref = MeanOfFirstColumn(s.y) ]
  IN  [ t EXCEPT !.min = calcSlopes(t).min, !.max = calcSlopes(t).max,
                 !.val = calcSlopes(t).val ]

\* SlopeControl.updateData
updateData(s, table) ==
  onReset([ s EXCEPT !.y = table.X, !.x = table.x ])

\* SlopeControl.onUpdateRef: the limits follow the reference, val stays
onUpdateRef(s) ==
  [ s EXCEPT !.min = calcSlopes(s).min, !.max = calcSlopes(s).max ]

\* SlopeControl.onUpdateLims, of the one widget and of the other
onUpdateLims(w, s) ==
  IF w = "OWManualTilt"
  THEN IF s.max < s.min
       THEN [ s EXCEPT !.min = Deg(-90), !.max = Deg(90) ]
       ELSE s
  ELSE LET t == IF s.max < s.min
                THEN [ s EXCEPT !.min = s.max, !.max = s.min ]
                ELSE s
       IN  [ t EXCEPT !.step = (t.max - t.min) \div 100 ]

\* SlopeControl.onUpdateSlope: the limits make room for val
onUpdateSlope(s) ==
  IF s.val < s.min THEN [ s EXCEPT !.min = s.val ]
  ELSE IF s.max < s.val THEN [ s EXCEPT !.max = s.val ]
  ELSE s

\* the value a slider of the scale of s shows for s.val
Clamped(s) ==
  IF s.val < s.min THEN s.min ELSE IF s.max < s.val THEN s.max ELSE s.val

\* _update_slider: setValue(val) and setScale(min, max, step).  The slider
\* is bound to slope.val and is code of the GUI library: given a value
\* outside its scale it may leave slope.val alone or write the value it
\* shows back to it and call handleSlopeSlider.
update_slider(s) ==
  /\ \/ slope' = s
     \/ /\ s.min <= s.max
        /\ Clamped(s) # s.val
        /\ slope' = IF self_data # None
                    THEN onUpdateSlope([ s EXCEPT !.val = Clamped(s) ])
                    ELSE [ s EXCEPT !.val = Clamped(s) ]
  /\ slope_slider' = [ value |-> slope'.val, minValue |-> s.min,
                       maxValue |-> s.max, step |-> s.step ]

\* OWManualTilt.__init__ / OWManualBaselineEditor.__init__
InitSlope ==
  /\ pc = "widget"
  /\ err = ""
  /\ result = None
  /\ FirstCall
  /\ NoReader
  /\ widget \in Editors
  /\ self_data = None
  /\ slope = setDefault
  /\ slope_slider = [ value |-> 0, minValue |-> Deg(-90), maxValue |-> Deg(90),
                      step |-> Deg(1) ]
  /\ presses = 0
  /\ data1 = None
  /\ data2 = None
  /\ cosmat = None
  /\ signals = {}
  /\ data2_sent = FALSE

\* what the handlers of the two editors leave alone
NotSlope ==
  << pc, result, v1vars, detvars, v2vars, mcvars, gsfvars, objvars, widget,
     data1, data2, cosmat, signals, data2_sent >>

\* set_data
set_data ==
  /\ \E table \in SlopeTables \cup { None } :
       /\ self_data' = table
       /\ IF table # None
          THEN update_slider(updateData(slope, table))
          ELSE update_slider(setDefault)
  /\ UNCHANGED << err, presses, NotSlope >>

\* handleSlopeChangeButtons: val moves by ammount steps; nothing looks at
\* the limits
handleSlopeChangeButtons ==
  /\ presses < MaxPresses
  /\ presses' = presses + 1
  /\ \E ammount \in Amounts(widget) :
       IF self_data # None
       THEN update_slider([ slope EXCEPT !.val = @ + ammount * slope.step ])
       ELSE UNCHANGED << slope, slope_slider >>
  /\ UNCHANGED << err, self_data, NotSlope >>

\* the slider is moved to a place of its scale, then handleSlopeSlider
handleSlopeSlider ==
  /\ \E v \in SlopeInputs \cup { slope_slider.minValue, slope_slider.maxValue } :
       /\ slope_slider.minValue <= v
       /\ v <= slope_slider.maxValue
       /\ slope' = IF self_data # None
                   THEN onUpdateSlope([ slope EXCEPT !.val = v ])
                   ELSE [ slope EXCEPT !.val = v ]
       /\ slope_slider' = [ slope_slider EXCEPT !.value = v ]
  /\ UNCHANGED << err, self_data, presses, NotSlope >>

\* a value is typed into the slope spin, then handleEquationSpinSlope
handleEquationSpinSlope ==
  /\ \E v \in SlopeInputs :
       IF self_data # None
       THEN update_slider(onUpdateSlope([ slope EXCEPT !.val = v ]))
       ELSE /\ slope' = [ slope EXCEPT !.val = v ]
            /\ UNCHANGED slope_slider
  /\ UNCHANGED << err, self_data, presses, NotSlope >>

\* a value is typed into the yref spin, then handleEquationSpinYref
handleEquationSpinYref ==
  /\ \E v \in YrefInputs :
       slope' = IF self_data # None
                THEN onUpdateRef([ slope EXCEPT !.yref = v ])
                ELSE [ slope EXCEPT !.yref = v ]
  /\ UNCHANGED << err, self_data, slope_slider, presses, NotSlope >>

\* a value is typed into the min or the max spin, then handleSlopeRangeSpin
handleSlopeRangeSpin ==
  /\ \E v \in RangeInputs :
       \/ update_slider(onUpdateLims(widget, [ slope EXCEPT !.min = v ]))
       \/ update_slider(onUpdateLims(widget, [ slope EXCEPT !.max = v ]))
  /\ UNCHANGED << err, self_data, presses, NotSlope >>

\* a value is typed into the step spin of the baseline editor, whose
\* callback is _update_slider
StepSpin ==
  /\ widget = "OWManualBaselineEditor"
  /\ \E v \in StepInputs : update_slider([ slope EXCEPT !.step = v ])
  /\ UNCHANGED << err, self_data, presses, NotSlope >>

\* handleResetSlope; without data self.x is None and onReset raises
handleResetSlope ==
  /\ IF slope.x = None
     THEN /\ err' = "TypeError"
          /\ UNCHANGED << slope, slope_slider >>
     ELSE /\ err' = err
          /\ update_slider(onReset(slope))
  /\ UNCHANGED << self_data, presses, NotSlope >>

NextSlope ==
  \/ set_data
  \/ handleSlopeChangeButtons
  \/ handleSlopeSlider
  \/ handleEquationSpinSlope
  \/ handleEquationSpinYref
  \/ handleSlopeRangeSpin
  \/ StepSpin
  \/ handleResetSlope

SpecSlope == InitSlope /\ [][NextSlope]_vars

\* C29: in both editors, once data is loaded, whatever handlers have run,
\* the slope control has min <= val <= max
C29_ValWithinLimits ==
  (widget \in Editors /\ self_data # None)
    => (slope.min <= slope.val /\ slope.val <= slope.max)

\* the same while no step button was clicked and the slider shows val
\* inside the scale it was last given, so that it has nothing to write back
ValWithinLimitsWithoutSlider ==
  ( /\ widget \in Editors
    /\ self_data # None
    /\ presses = 0
    /\ slope_slider.value = slope.val
    /\ slope_slider.minValue <= slope.val
    /\ slope.val <= slope_slider.maxValue )
    => (slope.min <= slope.val /\ slope.val <= slope.max)

\* ------------------------------------------------------------------------
\* widgets/owcos.py: the 2D Correlation Plot widget

\* the tables sent to the inputs: getx(table) and table.X, two spectra of
\* two points whose mean is whole; the last one has a descending axis
CosTables ==
  { [ x |-> << 1, 2 >>, X |-> << << 0, 0 >>, << 2, 2 >> >> ],
    [ x |-> << 1, 2 >>, X |-> << << 0, 4 >>, << 0, 4 >> >> ],
    [ x |-> << 2, 1 >>, X |-> << << 1, 3 >>, << 3, 1 >> >> ] }

RECURSIVE SumTo(_, _)
\* f[1] + ... + f[n]
SumTo(f, n) == IF n = 0 THEN 0 ELSE SumTo(f, n - 1) + f[n]

\* np.argsort(wn): the columns by ascending wavenumber
argsort(wn) ==
  [ k \in 1..Len(wn) |->
      CHOOSE c \in 1..Len(wn) :
        Cardinality({ d \in 1..Len(wn) :
                        \/ wn[d] < wn[c]
                        \/ wn[d] = wn[c] /\ d < c }) = k - 1 ]

\* sort_data: the table with its columns in the order of the axis
sort_data(table) ==
  LET wn_sorting == argsort(table.x)
  IN  [ x |-> [ k \in 1..Len(table.x) |-> table.x[wn_sorting[k]] ],
        X |-> [ r \in 1..Len(table.X) |->
                  [ k \in 1..Len(table.x) |-> table.X[r][wn_sorting[k]] ] ] ]

\* table.X - table.X.mean(): the mean is taken over the whole array
Centred(rows) ==
  LET n == Len(rows)
      w == Len(rows[1])
      total == SumTo([ r \in 1..n |-> SumTo(rows[r], w) ], n)
  IN  [ r \in 1..n |-> [ c \in 1..w |-> rows[r][c] - total \div (n * w) ] ]

\* the Hilbert-Noda matrix times pi: 1 / (l - k) off the diagonal, which is
\* whole for the two spectra of the tables above
HilbertNoda(k, l) == IF k = l THEN 0 ELSE 1 \div (l - k)

\* calc_cos: sync, asyn (times pi), series1, series2 and the two axes
calc_cos(table1, table2) ==
  LET t1 == sort_data(table1)
      t2 == sort_data(table2)
      series1 == Centred(t1.X)
      series2 == Centred(t2.X)
      n == Len(series1)
      w1 == Len(t1.x)
      w2 == Len(t2.x)
  IN  [ sync |->
          [ a \in 1..w1 |-> [ b \in 1..w2 |->
              SumTo([ r \in 1..n |-> series1[r][a] * series2[r][b] ], n)
                \div (n - 1) ] ],
        asyn |->
          [ a \in 1..w1 |-> [ b \in 1..w2 |->
              SumTo([ k \in 1..n |->
                       SumTo([ l \in 1..n |->
                                series1[k][a] * HilbertNoda(k, l)
                                  * series2[l][b] ], n) ], n)
                \div (n - 1) ] ],
        series1 |-> series1,
        series2 |-> series2,
        wn1 |-> t1.x,
        wn2 |-> t2.x ]

\* OWCos.__init__: both inputs None, and no attribute cosmat
InitCos ==
  /\ pc = "widget"
  /\ err = ""
  /\ result = None
  /\ FirstCall
  /\ NoReader
  /\ widget = "OWCos"
  /\ self_data = None
  /\ slope = None
  /\ slope_slider = None
  /\ presses = 0
  /\ data1 = None
  /\ data2 = None
  /\ cosmat = None
  /\ signals = {}
  /\ data2_sent = FALSE

\* what the handlers of OWCos leave alone
NotCos ==
  << pc, result, v1vars, detvars, v2vars, mcvars, gsfvars, objvars, widget,
     self_data, slope, slope_slider, presses >>

\* set_data1: a table, or None, arrives at Data 1
set_data1 ==
  /\ \E dataset \in CosTables \cup { None } : data1' = dataset
  /\ signals' = signals \cup { "Data 1" }
  /\ UNCHANGED << err, data2, cosmat, data2_sent, NotCos >>

\* set_data2: a table, or None, arrives at Data 2
set_data2 ==
  /\ \E dataset \in CosTables \cup { None } :
       /\ data2' = dataset
       /\ data2_sent' = (data2_sent \/ dataset # None)
  /\ signals' = signals \cup { "Data 2" }
  /\ UNCHANGED << err, data1, cosmat, NotCos >>

\* handleNewSignals, called once the inputs that changed are delivered.
\* commit plots self.cosmat, which does not exist before the first table.
handleNewSignals ==
  /\ signals # {}
  /\ signals' = {}
  /\ IF data1 # None
     THEN /\ data2' = IF data2 = None THEN data1 ELSE data2
          /\ cosmat' = calc_cos(data1, data2')
     ELSE UNCHANGED << data2, cosmat >>
  /\ err' = IF cosmat' = None THEN "AttributeError" ELSE err
  /\ UNCHANGED << data1, data2_sent, NotCos >>

NextCos == set_data1 \/ set_data2 \/ handleNewSignals

SpecCos == InitCos /\ [][NextCos]_vars

\* C30: while no table ever arrived at Data 2, after every handleNewSignals
\* with Data 1 present the correlation held is that of the current Data 1
\* with itself
C30_CorrelatesDataOneWithItself ==
  (widget = "OWCos" /\ signals = {} /\ data1 # None /\ ~ data2_sent)
    => cosmat = calc_cos(data1, data1)

====
